---- MODULE Spec2Model ----
(***************************************************************************)
(* Tracy: the transaction-text understanding subsystem.                    *)
(*                                                                         *)
(*  - AIService (desktop, ai-service.ts): parseTransaction with its        *)
(*    rule-based first tier and the generateObject escalation,             *)
(*    validateAndEnrich, processQuery with the responseCache.              *)
(*  - backend parser (parser.ts): parseTransaction over DEFAULT_CATEGORIES.*)
(*  - the callers that store a parse: POST /api/transactions, the Telegram *)
(*    bot handlers, the desktop VoiceInput confirm.                        *)
(*                                                                         *)
(* Texts are sequences of one-character strings, so that toLowerCase,      *)
(* trim, includes and the regular expressions are computed on characters.  *)
(* Amounts are in hundredths, confidences in hundredths (0.75 is 75),      *)
(* times are milliseconds.                                                 *)
(***************************************************************************)
EXTENDS Integers, Sequences, FiniteSets, TLC

VARIABLES
  pcall,              \* the AIService.parseTransaction call in progress
  apiCall,            \* backend API: the last request's text and its response
  responseCache,      \* AIService responseCache: key -> entry
  now,                \* Date.now()
  ticks,              \* number of clock advances so far
  qcall,              \* the AIService.processQuery calls
  parsedTransaction,  \* appStore.parsedTransaction (desktop)
  dbTransactions,     \* desktop Database: transactions table
  dbAccounts,         \* desktop Database: accounts table
  dbBudgets,          \* desktop Database: budgets table
  pendingTransactions,\* Telegram bot: userId -> pending parse
  serverTransactions, \* Supabase: transactions table
  ALLOWED_USER_ID,    \* Telegram bot: process.env.TELEGRAM_ALLOWED_USER_ID
  insights,           \* appStore.insights: the result of the last getInsights
  botMessages,        \* Telegram chat: the bot's messages that offer a parse
  botSaves,           \* history: the addTransaction calls of the bot's confirm handler
  dbSettings,         \* desktop Database: settings table
  aiSettings,         \* AIService.settings: the settings read once, or null
  ollamaProvider,     \* AIService.ollamaProvider: the provider's baseURL, or null
  modelRequested,     \* the model handed to the last generateObject / generateText call
  syncRuns,           \* SyncService.sync: the runs in progress, by caller
  lastSyncAt,         \* electron-store: lastSyncAt
  imported            \* history: the server rows sync has added to the local database

vars == <<pcall, apiCall, responseCache, now, ticks, qcall,
          parsedTransaction, dbTransactions, dbAccounts, dbBudgets,
          pendingTransactions, serverTransactions, ALLOWED_USER_ID,
          insights, botMessages, botSaves,
          dbSettings, aiSettings, ollamaProvider, modelRequested,
          syncRuns, lastSyncAt, imported>>

\* null / undefined: an optional value is None or Some(v)
None == << >>
Some(v) == <<v>>

(***************************************************************************)
(* Strings                                                                 *)
(***************************************************************************)
UpperCase == <<"A","B","C","D","E","F","G","H","I","J","K","L","M","N","O","P","Q","R","S","T","U","V","W","X","Y","Z">>
LowerCase == <<"a","b","c","d","e","f","g","h","i","j","k","l","m","n","o","p","q","r","s","t","u","v","w","x","y","z">>
DigitChars == <<"0","1","2","3","4","5","6","7","8","9">>
Whitespace == {" ", "\t", "\n"}
CurrencySymbols == {"$", "€", "£"}

IsDigit(c) == \E i \in 1..10 : DigitChars[i] = c
DigitVal(c) == (CHOOSE i \in 1..10 : DigitChars[i] = c) - 1
IsLetter(c) == \E i \in 1..26 : UpperCase[i] = c \/ LowerCase[i] = c
IsWordChar(c) == IsLetter(c) \/ IsDigit(c) \/ c = "_"

LowerChar(c) ==
  IF \E i \in 1..26 : UpperCase[i] = c
  THEN LowerCase[CHOOSE i \in 1..26 : UpperCase[i] = c]
  ELSE c

toLowerCase(s) == [i \in 1..Len(s) |-> LowerChar(s[i])]

\* String.prototype.includes
includes(s, sub) ==
  \E i \in 0..(Len(s) - Len(sub)) : SubSeq(s, i + 1, i + Len(sub)) = sub

\* String.prototype.trim
trim(s) ==
  IF \A i \in 1..Len(s) : s[i] \in Whitespace THEN << >>
  ELSE LET a == CHOOSE i \in 1..Len(s) :
                  s[i] \notin Whitespace /\ \A k \in 1..(i-1) : s[k] \in Whitespace
           b == CHOOSE i \in 1..Len(s) :
                  s[i] \notin Whitespace /\ \A k \in (i+1)..Len(s) : s[k] \in Whitespace
       IN SubSeq(s, a, b)

\* first index >= i of s that is not whitespace (Len(s)+1 if none): the regex \s*
SkipSpaces(s, i) ==
  CHOOSE j \in i..(Len(s) + 1) :
    /\ \A k \in i..(j-1) : s[k] \in Whitespace
    /\ (j = Len(s) + 1 \/ s[j] \notin Whitespace)

\* last index of the digit run starting at i (s[i] is a digit): the regex \d+
DigitsEnd(s, i) ==
  CHOOSE j \in i..Len(s) :
    /\ \A k \in i..j : IsDigit(s[k])
    /\ (j = Len(s) \/ ~IsDigit(s[j+1]))

\* the text matched by \d+(?:[.,]\d{1,2})? at i (s[i] is a digit)
NumberAt(s, i) ==
  LET j == DigitsEnd(s, i)
      frac == IF j + 2 <= Len(s) /\ s[j+1] \in {".", ","} /\ IsDigit(s[j+2])
              THEN IF j + 3 <= Len(s) /\ IsDigit(s[j+3]) THEN 3 ELSE 2
              ELSE 0
  IN SubSeq(s, i, j + frac)

\* str.replace(',', '.'): the first comma only
replaceComma(s) ==
  IF \E i \in 1..Len(s) : s[i] = ","
  THEN LET p == CHOOSE i \in 1..Len(s) : s[i] = "," /\ \A k \in 1..(i-1) : s[k] # ","
       IN [s EXCEPT ![p] = "."]
  ELSE s

RECURSIVE IntOf(_)
IntOf(ds) == IF ds = << >> THEN 0
             ELSE 10 * IntOf(SubSeq(ds, 1, Len(ds) - 1)) + DigitVal(ds[Len(ds)])

\* parseFloat of a string of the form digits[.digits], in hundredths
parseFloat(s) ==
  IF s = << >> \/ ~IsDigit(s[1]) THEN 0
  ELSE LET j == DigitsEnd(s, 1)
           fr == IF j + 1 <= Len(s) /\ s[j+1] = "." /\ j + 2 <= Len(s) /\ IsDigit(s[j+2])
                 THEN SubSeq(s, j + 2, DigitsEnd(s, j + 2)) ELSE << >>
           f2 == SubSeq(fr \o <<"0","0">>, 1, 2)
       IN 100 * IntOf(SubSeq(s, 1, j)) + IntOf(f2)

Abs(x) == IF x < 0 THEN -x ELSE x
Min(a, b) == IF a < b THEN a ELSE b
Max(a, b) == IF a > b THEN a ELSE b

(***************************************************************************)
(* Dates: new Date().toISOString().split('T')[0]                           *)
(***************************************************************************)
Today == [y |-> 2024, m |-> 3, d |-> 1]

IsLeap(y) == (y % 4 = 0 /\ y % 100 # 0) \/ y % 400 = 0
DaysInMonth(y, m) ==
  IF m = 2 THEN (IF IsLeap(y) THEN 29 ELSE 28)
  ELSE IF m \in {4, 6, 9, 11} THEN 30 ELSE 31

\* date.setDate(date.getDate() - n)
RECURSIVE MinusDays(_, _)
MinusDays(dt, n) ==
  IF n = 0 THEN dt
  ELSE IF dt.d > 1 THEN MinusDays([dt EXCEPT !.d = dt.d - 1], n - 1)
  ELSE IF dt.m > 1
       THEN MinusDays([dt EXCEPT !.m = dt.m - 1, !.d = DaysInMonth(dt.y, dt.m - 1)], n - 1)
       ELSE MinusDays([y |-> dt.y - 1, m |-> 12, d |-> 31], n - 1)

Digit(n) == DigitChars[n + 1]
Pad2(n) == <<Digit(n \div 10), Digit(n % 10)>>
Pad4(n) == <<Digit(n \div 1000), Digit((n \div 100) % 10), Digit((n \div 10) % 10), Digit(n % 10)>>
ISODate(dt) == Pad4(dt.y) \o <<"-">> \o Pad2(dt.m) \o <<"-">> \o Pad2(dt.d)

\* /^\d{4}-\d{2}-\d{2}$/.test(s)
IsISODate(s) ==
  /\ Len(s) = 10
  /\ \A i \in {1, 2, 3, 4, 6, 7, 9, 10} : IsDigit(s[i])
  /\ s[5] = "-" /\ s[8] = "-"

(***************************************************************************)
(* Desktop category catalog: Database.seedDefaultData, as getCategories    *)
(* returns it (ORDER BY group_name, name)                                  *)
(***************************************************************************)
Cat(n, t) == [name |-> n, type |-> t]

getCategories == <<
  Cat(<<"G","r","o","c","e","r","i","e","s">>, "expense"), Cat(<<"H","e","a","l","t","h","c","a","r","e">>, "expense"),
  Cat(<<"I","n","s","u","r","a","n","c","e">>, "expense"), Cat(<<"R","e","n","t","/","M","o","r","t","g","a","g","e">>, "expense"),
  Cat(<<"U","t","i","l","i","t","i","e","s">>, "expense"),
  Cat(<<"F","r","e","e","l","a","n","c","e">>, "income"), Cat(<<"G","i","f","t","s">>, "income"),
  Cat(<<"I","n","v","e","s","t","m","e","n","t","s">>, "income"), Cat(<<"R","e","f","u","n","d">>, "income"),
  Cat(<<"S","a","l","a","r","y">>, "income"),
  Cat(<<"D","i","n","i","n","g"," ","O","u","t">>, "expense"), Cat(<<"E","n","t","e","r","t","a","i","n","m","e","n","t">>, "expense"),
  Cat(<<"S","h","o","p","p","i","n","g">>, "expense"), Cat(<<"S","u","b","s","c","r","i","p","t","i","o","n","s">>, "expense"),
  Cat(<<"O","t","h","e","r">>, "expense"), Cat(<<"O","t","h","e","r"," ","I","n","c","o","m","e">>, "income"),
  Cat(<<"I","n","v","e","s","t","m","e","n","t","s">>, "expense"), Cat(<<"S","a","v","i","n","g","s"," ","T","r","a","n","s","f","e","r">>, "expense"),
  Cat(<<"C","a","r"," ","M","a","i","n","t","e","n","a","n","c","e">>, "expense"), Cat(<<"G","a","s">>, "expense"),
  Cat(<<"P","a","r","k","i","n","g">>, "expense"), Cat(<<"P","u","b","l","i","c"," ","T","r","a","n","s","i","t">>, "expense") >>

\* the least index of a non-empty set of indices
MinOf(hits) == CHOOSE i \in hits : \A k \in hits : i <= k

\* Array.prototype.find, hits being the indices whose element satisfies the
\* predicate: the first such element, or undefined
Find(seq, hits) == IF hits = {} THEN None ELSE Some(seq[MinOf(hits)])

\* the position of the first such element, 0 when there is none; a category's
\* id is its position in getCategories
FindIndex(hits) == IF hits = {} THEN 0 ELSE MinOf(hits)

\* keywords.some(kw => s.includes(kw))
includesAny(s, keywords) == \E i \in 1..Len(keywords) : includes(s, keywords[i])

(***************************************************************************)
(* AIService.parseWithRules                                                *)
(***************************************************************************)
incomeKeywords == <<<<"s","a","l","a","r","y">>, <<"p","a","y","c","h","e","c","k">>, <<"i","n","c","o","m","e">>, <<"r","e","c","e","i","v","e","d">>, <<"g","o","t"," ","p","a","i","d">>,
                    <<"e","a","r","n","e","d">>, <<"b","o","n","u","s">>, <<"r","e","f","u","n","d">>, <<"d","i","v","i","d","e","n","d">>>>
expenseKeywords == <<<<"s","p","e","n","t">>, <<"p","a","i","d">>, <<"b","o","u","g","h","t">>, <<"c","o","s","t">>, <<"p","u","r","c","h","a","s","e">>, <<"b","i","l","l">>, <<"e","x","p","e","n","s","e">>>>

KW(c, k) == [cat |-> c, keywords |-> k]

categoryKeywords == <<
  KW(<<"G","r","o","c","e","r","i","e","s">>, <<<<"g","r","o","c","e","r","y">>, <<"g","r","o","c","e","r","i","e","s">>, <<"s","u","p","e","r","m","a","r","k","e","t">>, <<"f","o","o","d">>, <<"w","h","o","l","e"," ","f","o","o","d","s">>, <<"t","r","a","d","e","r">>, <<"a","l","d","i">>, <<"l","i","d","l">>>>),
  KW(<<"D","i","n","i","n","g"," ","O","u","t">>, <<<<"r","e","s","t","a","u","r","a","n","t">>, <<"l","u","n","c","h">>, <<"d","i","n","n","e","r">>, <<"c","o","f","f","e","e">>, <<"c","a","f","e">>, <<"s","t","a","r","b","u","c","k","s">>, <<"m","c","d","o","n","a","l","d">>>>),
  KW(<<"T","r","a","n","s","p","o","r","t","a","t","i","o","n">>, <<<<"u","b","e","r">>, <<"l","y","f","t">>, <<"t","a","x","i">>, <<"g","a","s">>, <<"f","u","e","l">>, <<"p","a","r","k","i","n","g">>, <<"t","r","a","n","s","i","t">>, <<"m","e","t","r","o">>, <<"b","u","s">>>>),
  KW(<<"R","e","n","t","/","M","o","r","t","g","a","g","e">>, <<<<"r","e","n","t">>, <<"m","o","r","t","g","a","g","e">>, <<"l","e","a","s","e">>>>),
  KW(<<"U","t","i","l","i","t","i","e","s">>, <<<<"e","l","e","c","t","r","i","c">>, <<"w","a","t","e","r">>, <<"g","a","s"," ","b","i","l","l">>, <<"u","t","i","l","i","t","y">>, <<"i","n","t","e","r","n","e","t">>, <<"p","h","o","n","e">>>>),
  KW(<<"E","n","t","e","r","t","a","i","n","m","e","n","t">>, <<<<"m","o","v","i","e">>, <<"n","e","t","f","l","i","x">>, <<"s","p","o","t","i","f","y">>, <<"g","a","m","e">>, <<"c","o","n","c","e","r","t">>, <<"t","i","c","k","e","t","s">>>>),
  KW(<<"S","h","o","p","p","i","n","g">>, <<<<"a","m","a","z","o","n">>, <<"s","h","o","p","p","i","n","g">>, <<"c","l","o","t","h","e","s">>, <<"t","a","r","g","e","t">>, <<"w","a","l","m","a","r","t">>, <<"e","b","a","y">>>>),
  KW(<<"H","e","a","l","t","h","c","a","r","e">>, <<<<"d","o","c","t","o","r">>, <<"p","h","a","r","m","a","c","y">>, <<"m","e","d","i","c","i","n","e">>, <<"h","o","s","p","i","t","a","l">>, <<"d","e","n","t","a","l">>>>),
  KW(<<"S","a","l","a","r","y">>, <<<<"s","a","l","a","r","y">>, <<"p","a","y","c","h","e","c","k">>, <<"g","o","t"," ","p","a","i","d">>, <<"w","a","g","e">>>>),
  KW(<<"F","r","e","e","l","a","n","c","e">>, <<<<"f","r","e","e","l","a","n","c","e">>, <<"c","l","i","e","n","t">>, <<"p","r","o","j","e","c","t">>, <<"i","n","v","o","i","c","e">>>>) >>

CONFIDENCE_THRESHOLD == 75
RULE_MATCH_CONFIDENCE == 80
RULE_FALLBACK_CONFIDENCE == 50

\* text.match(/[$€£]?\s*(\d+(?:[.,]\d{1,2})?)/): group 1, or null
rulesAmountMatch(text) ==
  IF \E i \in 1..Len(text) : IsDigit(text[i])
  THEN Some(NumberAt(text, CHOOSE i \in 1..Len(text) :
                             IsDigit(text[i]) /\ \A k \in 1..(i-1) : ~IsDigit(text[k])))
  ELSE None

rulesAmount(text) ==
  LET amountMatch == rulesAmountMatch(text)
  IN IF amountMatch # None THEN parseFloat(replaceComma(amountMatch[1])) ELSE 0

rulesType(lowerText) ==
  IF includesAny(lowerText, incomeKeywords) THEN "income"
  ELSE IF includesAny(lowerText, expenseKeywords) THEN "expense"
  ELSE "expense"

rulesDate(lowerText) ==
  IF includes(lowerText, <<"y","e","s","t","e","r","d","a","y">>) THEN ISODate(MinusDays(Today, 1))
  ELSE ISODate(Today)

\* the first entry of categoryKeywords one of whose keywords the text includes
rulesCategoryEntry(lowerText) ==
  Find(categoryKeywords,
       { i \in 1..Len(categoryKeywords) : includesAny(lowerText, categoryKeywords[i].keywords) })

\* merchantPatterns: /at\s+([A-Z][a-zA-Z\s]+)/i, /from\s+([A-Z][a-zA-Z\s]+)/i
\* group 1 of the leftmost match of word \s+ [A-Za-z][A-Za-z\s]*, or null
MerchantAfter(text, word) ==
  LET n == Len(word)
      starts(i) == /\ i + n <= Len(text)
                   /\ toLowerCase(SubSeq(text, i, i + n - 1)) = word
                   /\ text[i + n] \in Whitespace
                   /\ SkipSpaces(text, i + n) <= Len(text)
                   /\ IsLetter(text[SkipSpaces(text, i + n)])
  IN IF \E i \in 1..Len(text) : starts(i)
     THEN LET p == CHOOSE i \in 1..Len(text) : starts(i) /\ \A k \in 1..(i-1) : ~starts(k)
              a == SkipSpaces(text, p + n)
              b == CHOOSE j \in a..Len(text) :
                     /\ \A k \in a..j : IsLetter(text[k]) \/ text[k] \in Whitespace
                     /\ (j = Len(text) \/ ~(IsLetter(text[j+1]) \/ text[j+1] \in Whitespace))
          IN Some(SubSeq(text, a, b))
     ELSE None

rulesMerchant(text) ==
  IF MerchantAfter(text, <<"a","t">>) # None THEN Some(trim(MerchantAfter(text, <<"a","t">>)[1]))
  ELSE IF MerchantAfter(text, <<"f","r","o","m">>) # None THEN Some(trim(MerchantAfter(text, <<"f","r","o","m">>)[1]))
  ELSE None

parseWithRules(text) ==
  LET lowerText == toLowerCase(text)
      categories == getCategories
      amount == rulesAmount(text)
      type == rulesType(lowerText)
      date == rulesDate(lowerText)
      entry == rulesCategoryEntry(lowerText)
      category == IF entry # None THEN entry[1].cat
                  ELSE IF type = "income" THEN <<"O","t","h","e","r"," ","I","n","c","o","m","e">> ELSE <<"O","t","h","e","r">>
      confidence == IF entry # None THEN RULE_MATCH_CONFIDENCE ELSE RULE_FALLBACK_CONFIDENCE
      sameNameAndType(c) == toLowerCase(c.name) = toLowerCase(category) /\ c.type = type
      matchedCategory == Find(categories,
                              { i \in 1..Len(categories) : sameNameAndType(categories[i]) })
  IN [amount |-> amount,
      type |-> type,
      category |-> IF matchedCategory # None THEN matchedCategory[1].name ELSE category,
      merchant |-> rulesMerchant(text),
      description |-> text,
      date |-> date,
      confidence |-> confidence]

(***************************************************************************)
(* AIService.validateAndEnrich                                             *)
(***************************************************************************)
DEFAULT_CONFIDENCE == 50

\* parsed.confidence || 0.5, clamped into [0, 1]
validatedConfidence(c) == Max(0, Min(100, IF c = 0 THEN DEFAULT_CONFIDENCE ELSE c))

\* a variant that keeps the sign of the model's amount
validatedAmount_signed(a) == a

validatedAmount(a) == Abs(a)

\* a variant that ignores the catalog and takes the fallback category
validatedCategory_fallback(parsed) ==
  IF parsed.type = "income" THEN <<"O","t","h","e","r"," ","I","n","c","o","m","e">> ELSE <<"O","t","h","e","r">>

validatedCategory(parsed) ==
  LET categories == getCategories
      wanted == toLowerCase(parsed.category)
      sameName(c) == toLowerCase(c.name) = wanted
      contains(c) == includes(toLowerCase(c.name), wanted)
      matchedCategory == Find(categories, { i \in 1..Len(categories) : sameName(categories[i]) })
      fuzzyMatch == Find(categories, { i \in 1..Len(categories) : contains(categories[i]) })
  IN IF matchedCategory = None
     THEN IF fuzzyMatch # None THEN fuzzyMatch[1].name
          ELSE IF parsed.type = "income" THEN <<"O","t","h","e","r"," ","I","n","c","o","m","e">> ELSE <<"O","t","h","e","r">>
     ELSE matchedCategory[1].name

validateAndEnrich(parsed) ==
  [parsed EXCEPT
     !.category = validatedCategory(parsed),
     !.amount = validatedAmount(parsed.amount),
     !.date = IF parsed.date = << >> \/ ~IsISODate(parsed.date)
              THEN ISODate(Today) ELSE parsed.date,
     !.confidence = validatedConfidence(parsed.confidence)]

(***************************************************************************)
(* Backend: DEFAULT_CATEGORIES (types.ts) and parseTransaction (parser.ts) *)
(***************************************************************************)
DCat(i, n, t, k) == [id |-> i, name |-> n, type |-> t, keywords |-> k]

DEFAULT_CATEGORIES == <<
  DCat("gas", <<"G","a","s">>, "expense", <<<<"g","a","s">>, <<"f","u","e","l">>, <<"p","e","t","r","o","l">>, <<"d","i","e","s","e","l">>, <<"g","a","s","o","l","i","n","e">>, <<"s","h","e","l","l">>, <<"b","p">>, <<"e","s","s","o">>, <<"t","a","n","k">>>>),
  DCat("transit", <<"P","u","b","l","i","c"," ","T","r","a","n","s","i","t">>, "expense", <<<<"b","u","s">>, <<"t","r","a","i","n">>, <<"m","e","t","r","o">>, <<"s","u","b","w","a","y">>, <<"t","r","a","m">>, <<"t","r","a","n","s","i","t">>, <<"t","i","c","k","e","t">>>>),
  DCat("parking", <<"P","a","r","k","i","n","g">>, "expense", <<<<"p","a","r","k","i","n","g">>, <<"p","a","r","k">>>>),
  DCat("uber", <<"R","i","d","e","s","h","a","r","e">>, "expense", <<<<"u","b","e","r">>, <<"l","y","f","t">>, <<"b","o","l","t">>, <<"t","a","x","i">>, <<"c","a","b">>>>),
  DCat("car", <<"C","a","r"," ","M","a","i","n","t","e","n","a","n","c","e">>, "expense", <<<<"c","a","r"," ","w","a","s","h">>, <<"o","i","l"," ","c","h","a","n","g","e">>, <<"t","i","r","e">>, <<"m","e","c","h","a","n","i","c">>, <<"r","e","p","a","i","r">>, <<"s","e","r","v","i","c","e">>>>),
  DCat("rent", <<"R","e","n","t","/","M","o","r","t","g","a","g","e">>, "expense", <<<<"r","e","n","t">>, <<"m","o","r","t","g","a","g","e">>, <<"l","e","a","s","e">>, <<"h","o","u","s","i","n","g">>>>),
  DCat("utilities", <<"U","t","i","l","i","t","i","e","s">>, "expense", <<<<"e","l","e","c","t","r","i","c">>, <<"e","l","e","c","t","r","i","c","i","t","y">>, <<"w","a","t","e","r">>, <<"u","t","i","l","i","t","y">>, <<"i","n","t","e","r","n","e","t">>, <<"p","h","o","n","e">>, <<"b","i","l","l">>>>),
  DCat("groceries", <<"G","r","o","c","e","r","i","e","s">>, "expense", <<<<"g","r","o","c","e","r","y">>, <<"g","r","o","c","e","r","i","e","s">>, <<"s","u","p","e","r","m","a","r","k","e","t">>, <<"l","i","d","l">>, <<"a","l","d","i">>, <<"t","e","s","c","o">>, <<"k","a","u","f","l","a","n","d">>, <<"b","i","l","l","a">>, <<"w","h","o","l","e"," ","f","o","o","d","s">>>>),
  DCat("healthcare", <<"H","e","a","l","t","h","c","a","r","e">>, "expense", <<<<"d","o","c","t","o","r">>, <<"p","h","a","r","m","a","c","y">>, <<"m","e","d","i","c","i","n","e">>, <<"h","o","s","p","i","t","a","l">>, <<"d","e","n","t","a","l">>, <<"d","e","n","t","i","s","t">>, <<"h","e","a","l","t","h">>>>),
  DCat("insurance", <<"I","n","s","u","r","a","n","c","e">>, "expense", <<<<"i","n","s","u","r","a","n","c","e">>>>),
  DCat("dining", <<"D","i","n","i","n","g"," ","O","u","t">>, "expense", <<<<"r","e","s","t","a","u","r","a","n","t">>, <<"l","u","n","c","h">>, <<"d","i","n","n","e","r">>, <<"b","r","e","a","k","f","a","s","t">>, <<"c","o","f","f","e","e">>, <<"c","a","f","e">>, <<"s","t","a","r","b","u","c","k","s">>, <<"m","c","d","o","n","a","l","d">>, <<"p","i","z","z","a">>, <<"b","u","r","g","e","r">>, <<"f","o","o","d">>, <<"e","a","t">>>>),
  DCat("entertainment", <<"E","n","t","e","r","t","a","i","n","m","e","n","t">>, "expense", <<<<"m","o","v","i","e">>, <<"n","e","t","f","l","i","x">>, <<"s","p","o","t","i","f","y">>, <<"g","a","m","e">>, <<"c","o","n","c","e","r","t">>, <<"t","i","c","k","e","t","s">>, <<"c","i","n","e","m","a">>, <<"t","h","e","a","t","e","r">>, <<"b","a","r">>, <<"c","l","u","b">>>>),
  DCat("shopping", <<"S","h","o","p","p","i","n","g">>, "expense", <<<<"a","m","a","z","o","n">>, <<"s","h","o","p","p","i","n","g">>, <<"c","l","o","t","h","e","s">>, <<"t","a","r","g","e","t">>, <<"w","a","l","m","a","r","t">>, <<"e","b","a","y">>, <<"i","k","e","a">>, <<"z","a","r","a">>>>),
  DCat("subscriptions", <<"S","u","b","s","c","r","i","p","t","i","o","n","s">>, "expense", <<<<"s","u","b","s","c","r","i","p","t","i","o","n">>, <<"m","e","m","b","e","r","s","h","i","p">>, <<"p","r","e","m","i","u","m">>, <<"p","l","a","n">>, <<"n","e","t","f","l","i","x">>, <<"s","p","o","t","i","f","y">>>>),
  DCat("salary", <<"S","a","l","a","r","y">>, "income", <<<<"s","a","l","a","r","y">>, <<"p","a","y","c","h","e","c","k">>, <<"w","a","g","e">>, <<"i","n","c","o","m","e">>, <<"p","a","y">>>>),
  DCat("freelance", <<"F","r","e","e","l","a","n","c","e">>, "income", <<<<"f","r","e","e","l","a","n","c","e">>, <<"c","l","i","e","n","t">>, <<"p","r","o","j","e","c","t">>, <<"i","n","v","o","i","c","e">>, <<"g","i","g">>>>),
  DCat("investments", <<"I","n","v","e","s","t","m","e","n","t","s">>, "income", <<<<"i","n","v","e","s","t">>, <<"d","i","v","i","d","e","n","d">>, <<"s","t","o","c","k">>, <<"c","r","y","p","t","o">>, <<"t","r","a","d","i","n","g">>, <<"i","n","t","e","r","e","s","t">>>>),
  DCat("gifts", <<"G","i","f","t","s">>, "income", <<<<"g","i","f","t">>, <<"p","r","e","s","e","n","t">>, <<"b","i","r","t","h","d","a","y">>, <<"r","e","c","e","i","v","e","d">>>>),
  DCat("refund", <<"R","e","f","u","n","d">>, "income", <<<<"r","e","f","u","n","d">>, <<"r","e","t","u","r","n">>, <<"c","a","s","h","b","a","c","k">>, <<"r","e","i","m","b","u","r","s","e","m","e","n","t">>>>),
  DCat("other-expense", <<"O","t","h","e","r">>, "expense", << >>),
  DCat("other-income", <<"O","t","h","e","r"," ","I","n","c","o","m","e">>, "income", << >>) >>

parserIncomeKeywords == <<<<"s","a","l","a","r","y">>, <<"p","a","y","c","h","e","c","k">>, <<"i","n","c","o","m","e">>, <<"r","e","c","e","i","v","e","d">>, <<"g","o","t"," ","p","a","i","d">>, <<"e","a","r","n","e","d">>,
                          <<"b","o","n","u","s">>, <<"r","e","f","u","n","d">>, <<"d","i","v","i","d","e","n","d">>, <<"g","i","f","t"," ","f","r","o","m">>, <<"s","e","n","t"," ","m","e">>>>

PARSER_MATCH_CONFIDENCE == 85
PARSER_FALLBACK_CONFIDENCE == 50

\* the leftmost of the indices where a pattern matches, as an option
FirstIndex(hits) == IF hits = {} THEN None ELSE Some(MinOf(hits))

\* index of the digit that [$€£]?\s*\d would reach from i, or 0
DigitAfterCurrency(s, i) ==
  LET q  == SkipSpaces(s, i)
      q1 == IF q <= Len(s) /\ s[q] \in CurrencySymbols THEN q + 1 ELSE q
      q2 == SkipSpaces(s, q1)
  IN IF q2 <= Len(s) /\ IsDigit(s[q2]) THEN q2 ELSE 0

Match(a, b) == [g1 |-> a, g2 |-> b]

\* the groups of a match of amountPatterns[k] found at index p (an option)
amountGroups(k, text, p) ==
  IF p = None THEN None
  ELSE IF k = 1
       THEN Some(Match(<<text[p[1]]>>, Some(NumberAt(text, DigitAfterCurrency(text, p[1] + 1)))))
  ELSE IF k = 2 THEN Some(Match(NumberAt(text, SkipSpaces(text, p[1] + 1)), None))
  ELSE Some(Match(NumberAt(text, p[1]), None))

\* amountPatterns[k], k = 1..4: text.match(pattern) as groups 1 and 2, or null
amountPatternMatch(k, text) ==
  IF k = 1 THEN      \* /([+-])\s*[$€£]?\s*(\d+(?:[.,]\d{1,2})?)/
    LET at(i) == text[i] \in {"+", "-"} /\ DigitAfterCurrency(text, i + 1) # 0
    IN amountGroups(k, text, FirstIndex({ i \in 1..Len(text) : at(i) }))
  ELSE IF k = 2 THEN \* /[$€£]\s*(\d+(?:[.,]\d{1,2})?)/
    LET at(i) == /\ text[i] \in CurrencySymbols
                 /\ SkipSpaces(text, i + 1) <= Len(text)
                 /\ IsDigit(text[SkipSpaces(text, i + 1)])
    IN amountGroups(k, text, FirstIndex({ i \in 1..Len(text) : at(i) }))
  ELSE               \* /(\d+(?:[.,]\d{1,2})?)\s*[$€£]?/ and /(\d+(?:[.,]\d{1,2})?)\s*(?:eur|usd|euro|dollar)?/i
    LET at(i) == IsDigit(text[i])
    IN amountGroups(k, text, FirstIndex({ i \in 1..Len(text) : at(i) }))

\* the first of the matches that is not null, or 0
FirstMatching(matches) ==
  IF \E k \in 1..4 : matches[k] # None
  THEN CHOOSE k \in 1..4 : matches[k] # None /\ \A j \in 1..(k-1) : matches[j] = None
  ELSE 0

\* the first pattern of amountPatterns that matches, or 0
FirstPattern(text) == FirstMatching([k \in 1..4 |-> amountPatternMatch(k, text)])

\* the body of the loop over amountPatterns for the match found
amountOfMatch(match) ==
  IF match.g1 = <<"+">> \/ match.g1 = <<"-">>
  THEN [amount |-> parseFloat(replaceComma(match.g2[1])),
        explicitSign |-> Some(match.g1[1])]
  ELSE [amount |-> parseFloat(replaceComma(
                     IF match.g1 # << >> THEN match.g1
                     ELSE IF match.g2 # None /\ match.g2[1] # << >> THEN match.g2[1]
                     ELSE <<"0">>)),
        explicitSign |-> None]

amountOfPattern(k, text) ==
  IF k = 0 THEN [amount |-> 0, explicitSign |-> None]
  ELSE amountOfMatch(amountPatternMatch(k, text)[1])

\* the loop over amountPatterns: [amount, explicitSign]
parserAmount(text) == amountOfPattern(FirstPattern(text), text)

parserType(lowerText, explicitSign) ==
  IF explicitSign = Some("+") THEN "income"
  ELSE IF explicitSign = Some("-") THEN "expense"
  ELSE IF includesAny(lowerText, parserIncomeKeywords) THEN "income"
  ELSE "expense"

\* /\bword\b/ on a lowercased text
hasWord(s, word) ==
  \E i \in 0..(Len(s) - Len(word)) :
    /\ SubSeq(s, i + 1, i + Len(word)) = word
    /\ (i = 0 \/ ~IsWordChar(s[i]))
    /\ (i + Len(word) = Len(s) \/ ~IsWordChar(s[i + Len(word) + 1]))

parserDate(lowerText) ==
  IF hasWord(lowerText, <<"y","e","s","t","e","r","d","a","y">>) THEN ISODate(MinusDays(Today, 1))
  ELSE IF hasWord(lowerText, <<"l","a","s","t"," ","w","e","e","k">>) THEN ISODate(MinusDays(Today, 7))
  ELSE ISODate(Today)

\* a variant that never looks at the keywords
parserCategory_fallbackOnly(lowerText, type) ==
  [matchedCategory |-> None, confidence |-> PARSER_FALLBACK_CONFIDENCE]

\* a variant that keeps the last category with a keyword in the text
parserCategory_lastMatch(lowerText, type) ==
  LET ofType(c) == c.type = type
      categoriesForType == SelectSeq(DEFAULT_CATEGORIES, ofType)
      hits == { i \in 1..Len(categoriesForType) :
                  includesAny(lowerText, categoriesForType[i].keywords) }
  IN IF hits # {}
     THEN [matchedCategory |->
             Some(categoriesForType[CHOOSE i \in hits : \A j \in hits : j <= i]),
           confidence |-> PARSER_MATCH_CONFIDENCE]
     ELSE [matchedCategory |-> None, confidence |-> PARSER_FALLBACK_CONFIDENCE]

\* the category loop: the first category of the type with a keyword in the text,
\* else the 'other-income' / 'other-expense' entry
parserCategory(lowerText, type) ==
  LET ofType(c) == c.type = type
      categoriesForType == SelectSeq(DEFAULT_CATEGORIES, ofType)
      isOther(c) == c.id = (IF type = "income" THEN "other-income" ELSE "other-expense")
      matched == Find(categoriesForType,
                      { i \in 1..Len(categoriesForType) :
                          includesAny(lowerText, categoriesForType[i].keywords) })
  IN IF matched # None
     THEN [matchedCategory |-> matched, confidence |-> PARSER_MATCH_CONFIDENCE]
     ELSE [matchedCategory |-> Find(DEFAULT_CATEGORIES,
                                    { i \in 1..Len(DEFAULT_CATEGORIES) :
                                        isOther(DEFAULT_CATEGORIES[i]) }),
           confidence |-> PARSER_FALLBACK_CONFIDENCE]

\* index of the next comma at or after i, or Len(s)+1
NextComma(s, i) ==
  CHOOSE j \in i..(Len(s) + 1) :
    /\ \A k \in i..(j-1) : s[k] # ","
    /\ (j = Len(s) + 1 \/ s[j] = ",")

\* text.split(',').map(p => p.trim())
RECURSIVE splitComma(_)
splitComma(s) ==
  LET c == NextComma(s, 1)
  IN IF c = Len(s) + 1 THEN <<trim(s)>>
     ELSE <<trim(SubSeq(s, 1, c - 1))>> \o splitComma(SubSeq(s, c + 1, Len(s)))

\* text.match(/@\s*([^,]+)/i) || text.match(/\bat\s+([^,]+)/i), else the third
\* comma-separated part
parserMerchant(text) ==
  LET atSign(i) == text[i] = "@" /\ i + 1 <= Len(text) /\ text[i+1] # ","
      atWord(i) == /\ i + 3 <= Len(text)
                   /\ toLowerCase(SubSeq(text, i, i + 1)) = <<"a","t">>
                   /\ (i = 1 \/ ~IsWordChar(text[i-1]))
                   /\ text[i+2] \in Whitespace
                   /\ text[i+3] # ","
      p1 == FirstIndex({ i \in 1..Len(text) : atSign(i) })
      p2 == FirstIndex({ i \in 1..Len(text) : atWord(i) })
      parts == splitComma(text)
  IN IF p1 # None THEN Some(trim(SubSeq(text, p1[1] + 1, NextComma(text, p1[1] + 1) - 1)))
     ELSE IF p2 # None THEN Some(trim(SubSeq(text, p2[1] + 2, NextComma(text, p2[1] + 2) - 1)))
     ELSE IF Len(parts) >= 3 THEN Some(parts[3])
     ELSE None

\* end of the match of /[+-]?\s*[$€£]?\s*\d+(?:[.,]\d{1,2})?\s*[$€£]?/ starting at p, or 0
AmountTokenEnd(s, p) ==
  LET p0 == IF s[p] \in {"+", "-"} THEN p + 1 ELSE p
      d  == DigitAfterCurrency(s, p0)
  IN IF d = 0 THEN 0
     ELSE LET e  == d + Len(NumberAt(s, d)) - 1
              e1 == SkipSpaces(s, e + 1) - 1
          IN IF e1 + 1 <= Len(s) /\ s[e1 + 1] \in CurrencySymbols THEN e1 + 1 ELSE e1

\* end of the match of /@\s*[^,]+/ starting at p, or 0
AtTokenEnd(s, p) ==
  IF s[p] = "@" /\ p + 1 <= Len(s) /\ s[p+1] # "," THEN NextComma(s, p + 1) - 1 ELSE 0

\* end of the match of /\b(yesterday|today|last week)\b/i starting at p, or 0
DateWordEnd(s, p) ==
  LET is(w) == /\ p + Len(w) - 1 <= Len(s)
               /\ toLowerCase(SubSeq(s, p, p + Len(w) - 1)) = w
               /\ (p = 1 \/ ~IsWordChar(s[p-1]))
               /\ (p + Len(w) - 1 = Len(s) \/ ~IsWordChar(s[p + Len(w)]))
  IN IF is(<<"y","e","s","t","e","r","d","a","y">>) THEN p + 8
     ELSE IF is(<<"t","o","d","a","y">>) THEN p + 4
     ELSE IF is(<<"l","a","s","t"," ","w","e","e","k">>) THEN p + 8
     ELSE 0

\* end of the match of /\s+/ starting at p, or 0
SpacesEnd(s, p) == IF s[p] \in Whitespace THEN SkipSpaces(s, p) - 1 ELSE 0

\* end of the match starting at p of one of the four regular expressions of
\* the description, or 0
TokenEnd(re, s, p) ==
  IF re = "amount" THEN AmountTokenEnd(s, p)
  ELSE IF re = "at" THEN AtTokenEnd(s, p)
  ELSE IF re = "date" THEN DateWordEnd(s, p)
  ELSE SpacesEnd(s, p)

\* s.replace(/re/g, by) from index i on
RECURSIVE replaceAll(_, _, _, _)
replaceAll(s, i, re, by) ==
  IF i > Len(s) THEN << >>
  ELSE IF TokenEnd(re, s, i) # 0 THEN by \o replaceAll(s, TokenEnd(re, s, i) + 1, re, by)
  ELSE <<s[i]>> \o replaceAll(s, i + 1, re, by)

UpperChar(c) ==
  IF \E i \in 1..26 : LowerCase[i] = c
  THEN UpperCase[CHOOSE i \in 1..26 : LowerCase[i] = c]
  ELSE c

\* the fallback for a description shorter than 2, then the capital first letter
describe(d5, matchedCategory) ==
  IF d5 = << >> \/ Len(d5) < 2
  THEN IF matchedCategory # None THEN matchedCategory[1].name ELSE <<"T","r","a","n","s","a","c","t","i","o","n">>
  ELSE d5

capitalize(description) ==
  <<UpperChar(description[1])>> \o SubSeq(description, 2, Len(description))

parserDescription(text, matchedCategory) ==
  capitalize(describe(
    trim(replaceAll(replaceAll(replaceAll(replaceAll(text, 1, "amount", << >>),
                                          1, "at", << >>),
                               1, "date", << >>),
                    1, "spaces", <<" ">>)),
    matchedCategory))

\* the returned object, from the locals of parseTransaction
parserResult(text, lowerText, am, type, cm) ==
  [amount |-> Abs(am.amount),
   type |-> type,
   category |-> IF cm.matchedCategory # None THEN cm.matchedCategory[1].name ELSE <<"O","t","h","e","r">>,
   merchant |-> parserMerchant(text),
   description |-> parserDescription(text, cm.matchedCategory),
   date |-> parserDate(lowerText),
   confidence |-> cm.confidence]

parserWithType(text, lowerText, am, type) ==
  parserResult(text, lowerText, am, type, parserCategory(lowerText, type))

parserWithAmount(text, lowerText, am) ==
  parserWithType(text, lowerText, am, parserType(lowerText, am.explicitSign))

\* parser.ts parseTransaction
parser_parseTransaction(text) ==
  parserWithAmount(text, trim(toLowerCase(text)), parserAmount(text))

(***************************************************************************)
(* AIService.handleLocalQuery and buildFinancialContext                    *)
(*                                                                         *)
(* A transaction is [date, amount, type, categoryId, accountId]; a         *)
(* categoryId is the index of the category in getCategories; transactions  *)
(* are kept in the order getTransactions returns them. An emoji of the     *)
(* answers is one character, written by its name (":bank:").               *)
(***************************************************************************)
RECURSIVE NatStr(_)
NatStr(n) == IF n < 10 THEN <<Digit(n)>> ELSE NatStr(n \div 10) \o <<Digit(n % 10)>>

\* Number.prototype.toFixed(2) of an amount in hundredths
toFixed2(c) ==
  (IF c < 0 THEN <<"-">> ELSE << >>) \o NatStr(Abs(c) \div 100) \o <<".">> \o Pad2(Abs(c) % 100)

RECURSIVE Sum(_)
Sum(ns) == IF ns = << >> THEN 0 ELSE Head(ns) + Sum(Tail(ns))

\* transactions.reduce((s, t) => s + Math.abs(t.amount), 0)
sumAbsAmount(transactions) ==
  Sum([i \in 1..Len(transactions) |-> Abs(transactions[i].amount)])

\* accounts.reduce((s, a) => s + a.balance, 0)
sumBalance(accounts) == Sum([i \in 1..Len(accounts) |-> accounts[i].balance])

RECURSIVE Join(_, _)
Join(lines, sep) ==
  IF lines = << >> THEN << >>
  ELSE IF Len(lines) = 1 THEN lines[1]
  ELSE lines[1] \o sep \o Join(Tail(lines), sep)

\* a <= b for TEXT values made of digits and '-' (SQLite's comparison of dates)
CharCode(c) == IF c = "-" THEN 0 ELSE 1 + DigitVal(c)
RECURSIVE TextLE(_, _)
TextLE(a, b) ==
  IF a = << >> THEN TRUE
  ELSE IF b = << >> THEN FALSE
  ELSE IF CharCode(Head(a)) # CharCode(Head(b)) THEN CharCode(Head(a)) < CharCode(Head(b))
  ELSE TextLE(Tail(a), Tail(b))

\* Database.getTransactions({startDate, endDate, type}); type "" is no filter
getTransactions(transactions, startDate, endDate, type) ==
  LET keep(t) == /\ TextLE(startDate, t.date) /\ TextLE(t.date, endDate)
                 /\ (type = "" \/ t.type = type)
  IN SelectSeq(transactions, keep)

\* the categoryIds of the transactions, in order of first occurrence (Map insertion order)
RECURSIVE FirstOccurrences(_, _)
FirstOccurrences(transactions, seen) ==
  IF transactions = << >> THEN << >>
  ELSE IF Head(transactions).categoryId \in seen
       THEN FirstOccurrences(Tail(transactions), seen)
       ELSE <<Head(transactions).categoryId>>
            \o FirstOccurrences(Tail(transactions), seen \cup {Head(transactions).categoryId})

\* the spending Map as [id, amount] entries, sorted by amount descending (stable), first 5
topSpending(transactions) ==
  LET ids == FirstOccurrences(transactions, {})
      spent(id) == LET ofCat(t) == t.categoryId = id
                   IN sumAbsAmount(SelectSeq(transactions, ofCat))
      entries == [i \in 1..Len(ids) |-> [id |-> ids[i], amount |-> spent(ids[i]), pos |-> i]]
      before(a, b) == a.amount > b.amount \/ (a.amount = b.amount /\ a.pos < b.pos)
      sorted == SortSeq(entries, before)
  IN SubSeq(sorted, 1, Min(5, Len(sorted)))

categoryName(id) == IF id \in 1..Len(getCategories) THEN Some(getCategories[id].name) ELSE None

\* Math.round(spent / amount * 100)
roundPct(spent, amount) == (200 * spent + amount) \div (2 * amount)

NL == <<"\n">>

budgetLine(b, transactions) ==
  LET ofCat(t) == t.categoryId = b.categoryId
      spent == sumAbsAmount(SelectSeq(transactions, ofCat))
      pct == roundPct(spent, b.amount)
      cat == categoryName(b.categoryId)
      emoji == IF spent > b.amount THEN <<":red_circle:">>
               ELSE IF 10 * spent > 8 * b.amount THEN <<":yellow_circle:">> ELSE <<":green_circle:">>
  IN emoji \o <<" ">> \o (IF cat # None THEN cat[1] ELSE <<"u","n","d","e","f","i","n","e","d">>) \o <<":"," ","€">> \o toFixed2(spent)
     \o <<" ","/"," ","€">> \o toFixed2(b.amount) \o <<" ","(">> \o NatStr(pct) \o <<"%",")">>

\* (net / income * 100).toFixed(1)
ratePct1(net, income) ==
  LET tenths == IF income > 0 THEN (2000 * net + income) \div (2 * income) ELSE 0
  IN NatStr(tenths \div 10) \o <<".">> \o <<Digit(tenths % 10)>>

\* a variant that looks for the budget intent before every other intent
handleLocalQuery_budgetFirst(query, transactions, accounts, budgets) ==
  IF includes(query, <<"b","u","d","g","e","t">>) THEN Some(<<"B","u","d","g","e","t"," ","S","t","a","t","u","s",":">>) ELSE None

handleLocalQuery(query, transactions, accounts, budgets) ==
  LET has(w) == includes(query, w)
      startOfMonth == ISODate([Today EXCEPT !.d = 1])
      endOfMonth == ISODate([Today EXCEPT !.d = DaysInMonth(Today.y, Today.m)])
      expenseTx == getTransactions(transactions, startOfMonth, endOfMonth, "expense")
      incomeTx == getTransactions(transactions, startOfMonth, endOfMonth, "income")
      income == sumAbsAmount(incomeTx)
      expenses == sumAbsAmount(expenseTx)
      net == income - expenses
      balance == sumBalance(accounts)
  IN
  IF has(<<"s","p","e","n","t">>) \/ has(<<"s","p","e","n","d","i","n","g">>) \/ has(<<"e","x","p","e","n","s","e">>) THEN
    IF has(<<"c","a","t","e","g","o","r","y">>) \/ has(<<"w","h","e","r","e">>) \/ has(<<"t","o","p">>) \/ has(<<"m","o","s","t">>) THEN
      LET sorted == topSpending(expenseTx)
          lines == [i \in 1..Len(sorted) |->
                      NatStr(i) \o <<"."," ">>
                      \o (IF categoryName(sorted[i].id) # None
                          THEN categoryName(sorted[i].id)[1] ELSE <<"U","n","k","n","o","w","n">>)
                      \o <<":"," ","€">> \o toFixed2(sorted[i].amount)]
      IN IF Len(sorted) = 0 THEN Some(<<"N","o"," ","e","x","p","e","n","s","e","s"," ","r","e","c","o","r","d","e","d"," ","t","h","i","s"," ","m","o","n","t","h",".">>)
         ELSE Some(<<"T","o","p"," ","s","p","e","n","d","i","n","g"," ","t","h","i","s"," ","m","o","n","t","h",":">> \o NL \o Join(lines, NL) \o NL \o NL
                   \o <<"T","o","t","a","l",":"," ","€">> \o toFixed2(expenses))
    ELSE Some(<<"Y","o","u","'","v","e"," ","s","p","e","n","t"," ","€">> \o toFixed2(expenses) \o <<" ","t","h","i","s"," ","m","o","n","t","h",".">>)
  ELSE IF has(<<"i","n","c","o","m","e">>) \/ has(<<"e","a","r","n">>) THEN
    Some(<<"Y","o","u","r"," ","i","n","c","o","m","e"," ","t","h","i","s"," ","m","o","n","t","h",":"," ","€">> \o toFixed2(income))
  ELSE IF has(<<"b","a","l","a","n","c","e">>) \/ has(<<"h","a","v","e">>) \/ has(<<"t","o","t","a","l">>) THEN
    LET breakdown == [i \in 1..Len(accounts) |->
                        accounts[i].name \o <<":"," ","€">> \o toFixed2(accounts[i].balance)]
    IN Some(<<"T","o","t","a","l"," ","b","a","l","a","n","c","e",":"," ","€">> \o toFixed2(balance) \o NL \o NL \o Join(breakdown, NL))
  ELSE IF has(<<"b","u","d","g","e","t">>) THEN
    IF Len(budgets) = 0 THEN Some(<<"Y","o","u"," ","h","a","v","e","n","'","t"," ","s","e","t"," ","u","p"," ","a","n","y"," ","b","u","d","g","e","t","s"," ","y","e","t",".">>)
    ELSE LET status == [i \in 1..Len(budgets) |-> budgetLine(budgets[i], expenseTx)]
         IN Some(<<"B","u","d","g","e","t"," ","S","t","a","t","u","s",":">> \o NL \o Join(status, NL))
  ELSE IF has(<<"s","a","v","e">>) \/ has(<<"s","a","v","i","n","g">>) THEN
    IF net >= 0
    THEN Some(<<"Y","o","u","'","v","e"," ","s","a","v","e","d"," ","€">> \o toFixed2(net) \o <<" ","t","h","i","s"," ","m","o","n","t","h"," ","(">>
              \o ratePct1(net, income) \o <<"%"," ","s","a","v","i","n","g","s"," ","r","a","t","e",")",".">>)
    ELSE Some(<<"Y","o","u","'","r","e"," ","s","p","e","n","d","i","n","g"," ","€">> \o toFixed2(Abs(net)) \o <<" ","m","o","r","e"," ","t","h","a","n"," ","y","o","u"," ","e","a","r","n"," ","t","h","i","s"," ","m","o","n","t","h",".">>)
  ELSE IF has(<<"s","u","m","m","a","r","y">>) \/ has(<<"o","v","e","r","v","i","e","w">>) THEN
    Some(<<":bar_chart:">> \o <<" ","M","o","n","t","h","l","y"," ","S","u","m","m","a","r","y",":">> \o NL
         \o <<":moneybag:">> \o <<" ","I","n","c","o","m","e",":"," ","€">> \o toFixed2(income) \o NL
         \o <<":money_with_wings:">> \o <<" ","E","x","p","e","n","s","e","s",":"," ","€">> \o toFixed2(expenses) \o NL
         \o (IF net >= 0 THEN <<":white_check_mark:">> ELSE <<":warning:">>) \o <<" ","N","e","t",":"," ">>
         \o (IF net >= 0 THEN <<"+">> ELSE << >>) \o <<"€">> \o toFixed2(net) \o NL
         \o <<":bank:">> \o <<" ","B","a","l","a","n","c","e",":"," ","€">> \o toFixed2(balance))
  ELSE None

HELP_MESSAGE == <<"A","s","k"," ","m","e"," ","a","b","o","u","t",":"," ","s","p","e","n","d","i","n","g",","," ","i","n","c","o","m","e",","," ","b","a","l","a","n","c","e",","," ","b","u","d","g","e","t","s",","," ","s","a","v","i","n","g","s",","," ","o","r"," ","g","e","t"," ","a"," ","s","u","m","m","a","r","y","!">>

(***************************************************************************)
(* AIService.getInsights. An insight is modelled by its id, its type, its  *)
(* priority and the budget it is about (0: none); its title and            *)
(* description are texts built from the same numbers and are left out.     *)
(* Amounts are hundredths, so x / y * 100 >= p is 100 * x >= p * y.        *)
(***************************************************************************)
Insight(id, type, priority, budget) ==
  [id |-> id, type |-> type, priority |-> priority, budget |-> budget]

\* "Spending comparison": change is (this - last) / last * 100
spendingInsight(thisMonthExpenses, lastMonthExpenses) ==
  IF lastMonthExpenses > 0
     /\ 100 * Abs(thisMonthExpenses - lastMonthExpenses) > 10 * lastMonthExpenses
  THEN << Insight("spending-change",
                  IF thisMonthExpenses > lastMonthExpenses THEN "anomaly" ELSE "saving",
                  IF 100 * Abs(thisMonthExpenses - lastMonthExpenses) > 25 * lastMonthExpenses
                  THEN "high" ELSE "medium", 0) >>
  ELSE << >>

\* "Savings rate": savingsRate is (income - thisMonthExpenses) / income * 100
savingsInsight(income, thisMonthExpenses) ==
  IF income > 0
  THEN IF 100 * (income - thisMonthExpenses) >= 20 * income
       THEN << Insight("great-savings", "saving", "low", 0) >>
       ELSE IF 100 * (income - thisMonthExpenses) < 10 * income
               /\ income - thisMonthExpenses >= 0
            THEN << Insight("low-savings", "recommendation", "medium", 0) >>
            ELSE << >>
  ELSE << >>

\* "Budget alerts": one round of the loop over the budgets; i is the budget's
\* position, standing for budget.id
budgetInsight(i, budget, thisMonth) ==
  LET ofBudget(t) == t.categoryId = budget.categoryId /\ t.type = "expense"
      spent == sumAbsAmount(SelectSeq(thisMonth, ofBudget))
  IN IF 100 * spent >= 100 * budget.amount
     THEN << Insight("budget-over", "anomaly", "high", i) >>
     ELSE IF 100 * spent >= 80 * budget.amount
          THEN << Insight("budget-warning", "spending", "medium", i) >>
          ELSE << >>

isExpense(t) == t.type = "expense"
isIncome(t) == t.type = "income"

getInsights(transactions, budgets) ==
  LET lastMonth == IF Today.m > 1 THEN [y |-> Today.y, m |-> Today.m - 1, d |-> 1]
                   ELSE [y |-> Today.y - 1, m |-> 12, d |-> 1]
      thisMonthRows ==
        getTransactions(transactions, ISODate([Today EXCEPT !.d = 1]),
                        ISODate([Today EXCEPT !.d = DaysInMonth(Today.y, Today.m)]), "")
      lastMonthRows ==
        getTransactions(transactions, ISODate(lastMonth),
                        ISODate([lastMonth EXCEPT !.d = DaysInMonth(lastMonth.y, lastMonth.m)]), "")
  IN spendingInsight(sumAbsAmount(SelectSeq(thisMonthRows, isExpense)),
                     sumAbsAmount(SelectSeq(lastMonthRows, isExpense)))
     \o savingsInsight(sumAbsAmount(SelectSeq(thisMonthRows, isIncome)),
                       sumAbsAmount(SelectSeq(thisMonthRows, isExpense)))
     \o Join([i \in 1..Len(budgets) |-> budgetInsight(i, budgets[i], thisMonthRows)], << >>)

\* appStore.loadInsights: set({ insights }) with the result of 'ai:getInsights'
loadInsights ==
  insights' = getInsights(dbTransactions, dbBudgets)

CACHE_TTL == 5 * 60 * 1000

(***************************************************************************)
(* Inputs                                                                  *)
(***************************************************************************)
Signs == { << >>, <<"+">>, <<"-">> }
Numbers == { <<"3","0">>, <<"1","2",",","5">> }
Phrases == { <<" ","s","p","e","n","t"," ","o","n"," ","g","a","s">>, <<","," ","s","a","l","a","r","y">>, <<" ","r","e","f","u","n","d"," ","f","o","r"," ","l","u","n","c","h">>, <<" ","s","t","u","f","f"," ","a","t"," ","L","i","d","l">>,
             <<" ","g","i","f","t"," ","f","r","o","m"," ","m","o","m"," ","y","e","s","t","e","r","d","a","y">>, <<","," ","g","r","o","c","e","r","i","e","s",","," ","L","i","d","l">> }

\* the texts given to the parsers
Texts == { s \o n \o p : s \in Signs, n \in Numbers, p \in Phrases }
         \cup { <<"l","u","n","c","h">>, <<"h","e","l","l","o">>, <<"-","2","5"," ","b","i","l","l","a">>, <<"2"," ","c","o","f","f","e","e","s"," ","3","0","€">> }

\* what generateObject can resolve to: objects of TransactionSchema
ModelAmounts == { -4500, 0, 1250 }
ModelCategories == { <<"g","r","o","c","e","r","i","e","s">>, <<"d","i","n","i","n","g">>, <<"F","o","o","d">>, <<"I","n","v","e","s","t","m","e","n","t","s">>, << >> }
ModelDateConfidences == { <<<<"2","0","2","4","-","0","2","-","2","8">>, 90>>, <<<<"2","8",".","2",".","2","0","2","4">>, 0>> }
ModelObjects ==
  { [amount |-> a, type |-> t, category |-> c, merchant |-> None,
     description |-> <<"x">>, date |-> dk[1], confidence |-> dk[2]] :
      a \in ModelAmounts, t \in {"income", "expense"}, c \in ModelCategories,
      dk \in ModelDateConfidences }

\* the questions given to processQuery
Queries == { <<"B","u","d","g","e","t","?">>, <<"H","e","l","l","o">>, <<" ","h","e","l","l","o"," ">> }
CacheKeys == { trim(toLowerCase(q)) : q \in Queries }

\* what generateText can resolve to
ModelTexts == { <<" ","H","i","!"," ">>, <<" "," ">> }

\* the ledger the questions are asked about
Tx(d, a, t, c) == [date |-> d, amount |-> a, type |-> t, categoryId |-> c, accountId |-> 1]
SeedTransactions == << Tx(<<"2","0","2","4","-","0","3","-","0","1">>, -4500, "expense", 1),
                       Tx(<<"2","0","2","4","-","0","3","-","0","1">>, -1250, "expense", 11),
                       Tx(<<"2","0","2","4","-","0","3","-","0","1">>, -500, "expense", 1),
                       Tx(<<"2","0","2","4","-","0","3","-","0","1">>, 300000, "income", 10),
                       Tx(<<"2","0","2","4","-","0","2","-","2","7">>, -9900, "expense", 13) >>
SeedAccounts == << [id |-> 1, name |-> <<"C","a","s","h">>, balance |-> 293750] >>
SeedBudgets == << [categoryId |-> 1, amount |-> 5000], [categoryId |-> 11, amount |-> 2000] >>

\* the clock advances by these steps, MaxTicks times
TickSteps == { 1, CACHE_TTL - 1 }
MaxTicks == 2

\* the texts and model objects of the runs that store transactions
PersistTexts == { <<"-","3","0"," ","s","t","u","f","f"," ","a","t"," ","L","i","d","l">>, <<"l","u","n","c","h">>, <<"h","e","l","l","o">> }
PersistObjects == { o \in ModelObjects : /\ o.type = "expense"
                                        /\ o.category = <<"g","r","o","c","e","r","i","e","s">>
                                        /\ o.confidence = 90 }
BotUsers == { "u1" }
\* store.get('deviceId') of the desktop
deviceId == "desktop"
\* requests are taken while fewer than MaxStored transactions are stored
MaxStored == 2

\* the parsers' results on Texts, computed once
RulesBased == [t \in Texts |-> parseWithRules(t)]
ParserParsed == [t \in Texts |-> parser_parseTransaction(t)]
Validated == [o \in ModelObjects |-> validateAndEnrich(o)]

(***************************************************************************)
(* AIService.parseTransaction                                              *)
(***************************************************************************)
NoParse == [amount |-> 0, type |-> "expense", category |-> << >>, merchant |-> None,
            description |-> << >>, date |-> << >>, confidence |-> 0]
\* escalation: "none", or how the generateObject call ended ("resolved", "rejected");
\* error: the promise of parseTransaction rejected
IdleParse == [pc |-> "idle", text |-> << >>, rulesBased |-> NoParse, result |-> None,
              generateObjectCalls |-> 0, escalation |-> "none", error |-> FALSE]

(***************************************************************************)
(* AIService: the settings and the model of a call                         *)
(***************************************************************************)
\* Database.initialize: the default settings
DefaultSettings ==
  [aiProvider |-> "ollama", openaiApiKey |-> "", anthropicApiKey |-> "",
   ollamaModel |-> "llama3.2", ollamaEndpoint |-> "http://localhost:11434"]

\* a || b on strings: the empty string is falsy
orElse(a, b) == IF a # "" THEN a ELSE b

\* a variant that reads the settings table on every call
getSettings_reads(cached, stored) == stored

\* getSettings: this.settings is read from the table once and kept
getSettings(cached, stored) == IF cached = None THEN stored ELSE cached[1]

\* getModel: the model of the call, and this.ollamaProvider after it
getModel(settings, provider) ==
  IF settings.aiProvider = "openai" /\ settings.openaiApiKey # ""
  THEN [model |-> [provider |-> "openai", modelId |-> orElse(settings.ollamaModel, "gpt-4o-mini"),
                   baseURL |-> ""],
        ollamaProvider |-> provider]
  ELSE IF settings.aiProvider = "anthropic" /\ settings.anthropicApiKey # ""
  THEN [model |-> [provider |-> "anthropic",
                   modelId |-> orElse(settings.ollamaModel, "claude-3-haiku-20240307"),
                   baseURL |-> ""],
        ollamaProvider |-> provider]
  ELSE LET created == IF provider = None
                      THEN Some(orElse(settings.ollamaEndpoint, "http://localhost:11434"))
                      ELSE provider
       IN [model |-> [provider |-> "ollama", modelId |-> orElse(settings.ollamaModel, "llama3.2"),
                      baseURL |-> created[1]],
           ollamaProvider |-> created]

\* generateObject({ model: this.getModel(), ... }) / generateText likewise
requestModel ==
  LET settings == getSettings(aiSettings, dbSettings)
      chosen == getModel(settings, ollamaProvider)
  IN /\ aiSettings' = Some(settings)
     /\ ollamaProvider' = chosen.ollamaProvider
     /\ modelRequested' = Some(chosen.model)

ModelUnchanged == UNCHANGED <<modelRequested, aiSettings, ollamaProvider>>

\* ipcMain.handle('settings:set'): db.setSettings(updates)
settings_set(updates) ==
  dbSettings' = [k \in DOMAIN dbSettings |->
                   IF k \in DOMAIN updates THEN updates[k] ELSE dbSettings[k]]

\* a variant with the threshold at 0.85
escalates_below85(rulesBased) == rulesBased.confidence < 85

\* rulesBased.confidence >= 0.75 returns at once; below it the call escalates
escalates(rulesBased) == ~(rulesBased.confidence >= CONFIDENCE_THRESHOLD)

\* parseTransaction up to its return or its await of generateObject
AIService_parseTransaction(text) ==
  LET rulesBased == RulesBased[text]
  IN /\ pcall.pc = "idle"
     /\ pcall' = IF ~escalates(rulesBased)
                 THEN [IdleParse EXCEPT !.pc = "done", !.text = text,
                                        !.rulesBased = rulesBased,
                                        !.result = Some(rulesBased)]
                 ELSE [IdleParse EXCEPT !.pc = "awaiting", !.text = text,
                                        !.rulesBased = rulesBased,
                                        !.generateObjectCalls = 1]
     /\ IF escalates(rulesBased) THEN requestModel ELSE ModelUnchanged

\* generateObject resolves with result.object = object
generateObject_resolves(object) ==
  /\ pcall.pc = "awaiting"
  /\ pcall' = [pcall EXCEPT !.pc = "done", !.escalation = "resolved",
                             !.result = Some(Validated[object])]

\* a variant that rethrows instead of falling back
generateObject_rejects_rethrows ==
  /\ pcall.pc = "awaiting"
  /\ pcall' = [pcall EXCEPT !.pc = "done", !.escalation = "rejected", !.error = TRUE]

\* generateObject rejects: the catch block, then return rulesBased
generateObject_rejects ==
  /\ pcall.pc = "awaiting"
  /\ pcall' = [pcall EXCEPT !.pc = "done", !.escalation = "rejected",
                             !.result = Some(pcall.rulesBased)]

\* ipcMain.handle('ai:parseTransaction') hands the result to the renderer
ipc_parseTransaction_returns ==
  /\ pcall.pc = "done"
  /\ pcall' = IdleParse

(***************************************************************************)
(* Backend: POST /api/parse                                                *)
(***************************************************************************)
NoRequest == [text |-> << >>, status |-> 0, body |-> NoParse]

api_parse(text) ==
  apiCall' = IF text = << >> THEN [text |-> text, status |-> 400, body |-> NoParse]
             ELSE [text |-> text, status |-> 200, body |-> ParserParsed[text]]

(***************************************************************************)
(* SpecParse: the two parsers                                              *)
(***************************************************************************)
ParseCallUnchanged == UNCHANGED <<responseCache, now, ticks, qcall, parsedTransaction,
                              dbTransactions, dbAccounts, dbBudgets,
                              pendingTransactions, serverTransactions, ALLOWED_USER_ID,
          insights, botMessages, botSaves,
          dbSettings, syncRuns, lastSyncAt, imported>>
OtherUnchanged == ParseCallUnchanged /\ ModelUnchanged

InitParse ==
  /\ pcall = IdleParse
  /\ apiCall = NoRequest
  /\ responseCache = [k \in CacheKeys |-> None]
  /\ now = 0
  /\ ticks = 0
  /\ qcall = << >>
  /\ parsedTransaction = None
  /\ dbTransactions = << >>
  /\ dbAccounts = << >>
  /\ dbBudgets = << >>
  /\ pendingTransactions = << >>
  /\ serverTransactions = << >>
  /\ ALLOWED_USER_ID = None
  /\ insights = << >>
  /\ botMessages = << >>
  /\ botSaves = << >>
  /\ dbSettings = DefaultSettings
  /\ aiSettings = None
  /\ ollamaProvider = None
  /\ modelRequested = None
  /\ syncRuns = << >>
  /\ lastSyncAt = 0
  /\ imported = << >>

NextParse ==
  \/ \E text \in Texts : AIService_parseTransaction(text) /\ UNCHANGED apiCall /\ ParseCallUnchanged
  \/ \E object \in ModelObjects : generateObject_resolves(object) /\ UNCHANGED apiCall /\ OtherUnchanged
  \/ generateObject_rejects /\ UNCHANGED apiCall /\ OtherUnchanged
  \/ ipc_parseTransaction_returns /\ UNCHANGED apiCall /\ OtherUnchanged
  \/ \E text \in Texts : api_parse(text) /\ UNCHANGED pcall /\ OtherUnchanged

SpecParse == InitParse /\ [][NextParse]_vars

(***************************************************************************)
(* AIService.processQuery                                                  *)
(***************************************************************************)
QueryCalls == { "q1", "q2" }

\* threw: the generateText call rejected; error: the promise of processQuery rejected
IdleQuery == [pc |-> "idle", query |-> << >>, cacheKey |-> << >>, startedAt |-> 0,
              result |-> None, cacheHit |-> FALSE, handleLocalQueryCalls |-> 0,
              generateTextCalls |-> 0, cacheWrites |-> 0, threw |-> FALSE,
              error |-> FALSE]

\* a variant with the TTL test reversed
cacheLookup_reversed(cache, key, time) ==
  IF cache[key] # None /\ time - cache[key][1].timestamp > CACHE_TTL
  THEN cache[key] ELSE None

\* responseCache.get(key) passing the TTL test: the entry, or null
cacheLookup(cache, key, time) ==
  IF cache[key] # None /\ time - cache[key][1].timestamp < CACHE_TTL
  THEN cache[key] ELSE None

\* a variant that stores nothing
cacheSet_dropped(cache, key, response, time) == cache

\* responseCache.set(key, { response, timestamp: Date.now() })
cacheSet(cache, key, response, time) ==
  [cache EXCEPT ![key] = Some([response |-> response, timestamp |-> time])]

\* processQuery up to its return or its await of generateText
processQuery(c, query) ==
  LET lowerQuery == toLowerCase(query)
      cacheKey == trim(lowerQuery)
      cached == cacheLookup(responseCache, cacheKey, now)
      call == [IdleQuery EXCEPT !.query = query, !.cacheKey = cacheKey, !.startedAt = now]
  IN /\ qcall[c].pc = "idle"
     /\ IF cached # None
        THEN /\ qcall' = [qcall EXCEPT ![c] =
                            [call EXCEPT !.pc = "done", !.cacheHit = TRUE,
                                         !.result = Some(cached[1].response)]]
             /\ UNCHANGED responseCache
             /\ ModelUnchanged
        ELSE LET response == handleLocalQuery(lowerQuery, dbTransactions, dbAccounts, dbBudgets)
             IN IF response # None /\ response[1] # << >>
                THEN /\ responseCache' = cacheSet(responseCache, cacheKey, response[1], now)
                     /\ qcall' = [qcall EXCEPT ![c] =
                                    [call EXCEPT !.pc = "done", !.result = response,
                                                 !.handleLocalQueryCalls = 1,
                                                 !.cacheWrites = 1]]
                     /\ ModelUnchanged
                ELSE /\ qcall' = [qcall EXCEPT ![c] =
                                    [call EXCEPT !.pc = "awaiting",
                                                 !.handleLocalQueryCalls = 1,
                                                 !.generateTextCalls = 1]]
                     /\ UNCHANGED responseCache
                     /\ requestModel

\* generateText resolves with result.text = text
generateText_resolves(c, text) ==
  LET response == trim(text)
  IN /\ qcall[c].pc = "awaiting"
     /\ responseCache' = cacheSet(responseCache, qcall[c].cacheKey, response, now)
     /\ qcall' = [qcall EXCEPT ![c].pc = "done", ![c].result = Some(response),
                               ![c].cacheWrites = 1]

\* a variant that caches the help message
generateText_rejects_caches(c) ==
  /\ qcall[c].pc = "awaiting"
  /\ qcall' = [qcall EXCEPT ![c].pc = "done", ![c].threw = TRUE,
                            ![c].result = Some(HELP_MESSAGE), ![c].cacheWrites = 1]
  /\ responseCache' = cacheSet(responseCache, qcall[c].cacheKey, HELP_MESSAGE, now)

\* generateText rejects: the catch block, then the help message
generateText_rejects(c) ==
  /\ qcall[c].pc = "awaiting"
  /\ qcall' = [qcall EXCEPT ![c].pc = "done", ![c].threw = TRUE,
                            ![c].result = Some(HELP_MESSAGE)]
  /\ UNCHANGED responseCache

\* ipcMain.handle('ai:processQuery') hands the answer to the renderer
ipc_processQuery_returns(c) ==
  /\ qcall[c].pc = "done"
  /\ qcall' = [qcall EXCEPT ![c] = IdleQuery]
  /\ UNCHANGED responseCache

\* time passes
Tick(d) ==
  /\ ticks < MaxTicks
  /\ ticks' = ticks + 1
  /\ now' = now + d

(***************************************************************************)
(* SpecQuery: processQuery calls, interleaved at their awaits, and the     *)
(* clock                                                                   *)
(***************************************************************************)
QueryCallUnchanged == UNCHANGED <<pcall, apiCall, parsedTransaction, dbTransactions,
                              dbAccounts, dbBudgets, pendingTransactions,
                              serverTransactions, ALLOWED_USER_ID,
          insights, botMessages, botSaves,
          dbSettings, syncRuns, lastSyncAt, imported>>
QueryUnchanged == QueryCallUnchanged /\ ModelUnchanged

InitQuery ==
  /\ pcall = IdleParse
  /\ apiCall = NoRequest
  /\ responseCache = [k \in CacheKeys |-> None]
  /\ now = 0
  /\ ticks = 0
  /\ qcall = [c \in QueryCalls |-> IdleQuery]
  /\ parsedTransaction = None
  /\ dbTransactions = SeedTransactions
  /\ dbAccounts = SeedAccounts
  /\ dbBudgets = SeedBudgets
  /\ pendingTransactions = << >>
  /\ serverTransactions = << >>
  /\ ALLOWED_USER_ID = None
  /\ insights = << >>
  /\ botMessages = << >>
  /\ botSaves = << >>
  /\ dbSettings = DefaultSettings
  /\ aiSettings = None
  /\ ollamaProvider = None
  /\ modelRequested = None
  /\ syncRuns = << >>
  /\ lastSyncAt = 0
  /\ imported = << >>

NextQuery ==
  \/ \E c \in QueryCalls, query \in Queries :
       processQuery(c, query) /\ UNCHANGED <<now, ticks>> /\ QueryCallUnchanged
  \/ \E c \in QueryCalls, text \in ModelTexts :
       generateText_resolves(c, text) /\ UNCHANGED <<now, ticks>> /\ QueryUnchanged
  \/ \E c \in QueryCalls :
       generateText_rejects(c) /\ UNCHANGED <<now, ticks>> /\ QueryUnchanged
  \/ \E c \in QueryCalls :
       ipc_processQuery_returns(c) /\ UNCHANGED <<now, ticks>> /\ QueryUnchanged
  \/ \E d \in TickSteps :
       Tick(d) /\ UNCHANGED <<qcall, responseCache>> /\ QueryUnchanged

SpecQuery == InitQuery /\ [][NextQuery]_vars

(***************************************************************************)
(* DatabaseService.resetAllData                                            *)
(***************************************************************************)
\* a variant that leaves the account balances as they are
resetAllData_keepsBalances(failAt) ==
  /\ dbTransactions' = IF failAt = "transactions" THEN dbTransactions ELSE << >>
  /\ dbBudgets' = IF failAt \in {"transactions", "budgets"} THEN dbBudgets ELSE << >>
  /\ dbAccounts' = dbAccounts

\* DatabaseService.resetAllData: three statements, each of which may throw;
\* failAt names the statement that throws ("none": the call returns true)
resetAllData(failAt) ==
  /\ dbTransactions' = IF failAt = "transactions" THEN dbTransactions ELSE << >>
  /\ dbBudgets' = IF failAt \in {"transactions", "budgets"} THEN dbBudgets ELSE << >>
  /\ dbAccounts' = IF failAt = "none"
                   THEN [i \in 1..Len(dbAccounts) |-> [dbAccounts[i] EXCEPT !.balance = 0]]
                   ELSE dbAccounts

(***************************************************************************)
(* SpecIntent: processQuery over questions that name one or several        *)
(* intents, on a ledger with or without transactions and budgets           *)
(***************************************************************************)
\* the trigger words of handleLocalQuery, intent by intent in the order of its
\* if statements
Intents == <<
  [name |-> "spending", triggers |-> <<<<"s","p","e","n","t">>, <<"s","p","e","n","d","i","n","g">>, <<"e","x","p","e","n","s","e">>>>],
  [name |-> "income", triggers |-> <<<<"i","n","c","o","m","e">>, <<"e","a","r","n">>>>],
  [name |-> "balance", triggers |-> <<<<"b","a","l","a","n","c","e">>, <<"h","a","v","e">>, <<"t","o","t","a","l">>>>],
  [name |-> "budget", triggers |-> <<<<"b","u","d","g","e","t">>>>],
  [name |-> "savings", triggers |-> <<<<"s","a","v","e">>, <<"s","a","v","i","n","g">>>>],
  [name |-> "summary", triggers |-> <<<<"s","u","m","m","a","r","y">>, <<"o","v","e","r","v","i","e","w">>>> ] >>

IntentQueries == { <<"i","n","c","o","m","e"," ","s","p","e","n","t">>, <<"t","o","t","a","l"," ","I"," ","e","a","r","n">>, <<"b","u","d","g","e","t"," ","b","a","l","a","n","c","e">>, <<"s","a","v","i","n","g"," ","b","u","d","g","e","t">>,
                   <<"s","u","m","m","a","r","y"," ","t","o"," ","s","a","v","e">>, <<"O","v","e","r","v","i","e","w">>, <<"h","o","w","'","s"," ","m","y"," ","b","u","d","g","e","t">>, <<"H","e","l","l","o">> }

InitIntent ==
  /\ pcall = IdleParse
  /\ apiCall = NoRequest
  /\ responseCache = [k \in { trim(toLowerCase(q)) : q \in IntentQueries } |-> None]
  /\ now = 0
  /\ ticks = 0
  /\ qcall = [c \in QueryCalls |-> IdleQuery]
  /\ parsedTransaction = None
  /\ dbTransactions \in { << >>, SeedTransactions }
  /\ dbAccounts = SeedAccounts
  /\ dbBudgets \in { << >>, SeedBudgets }
  /\ pendingTransactions = << >>
  /\ serverTransactions = << >>
  /\ ALLOWED_USER_ID = None
  /\ insights = << >>
  /\ botMessages = << >>
  /\ botSaves = << >>
  /\ dbSettings = DefaultSettings
  /\ aiSettings = None
  /\ ollamaProvider = None
  /\ modelRequested = None
  /\ syncRuns = << >>
  /\ lastSyncAt = 0
  /\ imported = << >>

\* the questions are asked one at a time
IntentCalls == { "q1" }

NextIntent ==
  \/ \E c \in IntentCalls, query \in IntentQueries :
       processQuery(c, query) /\ UNCHANGED <<now, ticks>> /\ QueryCallUnchanged
  \/ \E c \in IntentCalls, text \in ModelTexts :
       generateText_resolves(c, text) /\ UNCHANGED <<now, ticks>> /\ QueryUnchanged
  \/ \E c \in IntentCalls :
       generateText_rejects(c) /\ UNCHANGED <<now, ticks>> /\ QueryUnchanged
  \/ \E c \in IntentCalls :
       ipc_processQuery_returns(c) /\ UNCHANGED <<now, ticks>> /\ QueryUnchanged

SpecIntent == InitIntent /\ [][NextIntent]_vars

(***************************************************************************)
(* SpecReset: the budget question and resetAllData on one ledger           *)
(***************************************************************************)
ResetQueries == { <<"h","o","w","'","s"," ","m","y"," ","b","u","d","g","e","t">>, <<"H","e","l","l","o">> }

InitReset ==
  /\ pcall = IdleParse
  /\ apiCall = NoRequest
  /\ responseCache = [k \in { trim(toLowerCase(q)) : q \in ResetQueries } |-> None]
  /\ now = 0
  /\ ticks = 0
  /\ qcall = [c \in QueryCalls |-> IdleQuery]
  /\ parsedTransaction = None
  /\ dbTransactions \in { << >>, SeedTransactions }
  /\ dbAccounts = SeedAccounts
  /\ dbBudgets \in { << >>, SeedBudgets }
  /\ pendingTransactions = << >>
  /\ serverTransactions = << >>
  /\ ALLOWED_USER_ID = None
  /\ insights = << >>
  /\ botMessages = << >>
  /\ botSaves = << >>
  /\ dbSettings = DefaultSettings
  /\ aiSettings = None
  /\ ollamaProvider = None
  /\ modelRequested = None
  /\ syncRuns = << >>
  /\ lastSyncAt = 0
  /\ imported = << >>

NextReset ==
  \/ \E c \in IntentCalls, query \in ResetQueries :
       processQuery(c, query) /\ UNCHANGED <<now, ticks>> /\ QueryCallUnchanged
  \/ \E c \in IntentCalls, text \in ModelTexts :
       generateText_resolves(c, text) /\ UNCHANGED <<now, ticks>> /\ QueryUnchanged
  \/ \E c \in IntentCalls :
       generateText_rejects(c) /\ UNCHANGED <<now, ticks>> /\ QueryUnchanged
  \/ \E c \in IntentCalls :
       ipc_processQuery_returns(c) /\ UNCHANGED <<now, ticks>> /\ QueryUnchanged
  \/ \E d \in TickSteps :
       Tick(d) /\ UNCHANGED <<responseCache, qcall>> /\ QueryUnchanged
  \/ \E failAt \in {"none", "transactions", "budgets", "accounts"} :
       /\ resetAllData(failAt)
       /\ UNCHANGED <<pcall, apiCall, responseCache, now, ticks, qcall, parsedTransaction,
                      pendingTransactions, serverTransactions, ALLOWED_USER_ID,
          insights, botMessages, botSaves,
          dbSettings, aiSettings, ollamaProvider, modelRequested,
          syncRuns, lastSyncAt, imported>>

SpecReset == InitReset /\ [][NextReset]_vars

(***************************************************************************)
(* Backend: supabase.addTransaction, POST /api/transactions, Telegram bot  *)
(***************************************************************************)
\* the transactions stored so far, in the backend and on the desktop
Stored == Len(serverTransactions) + Len(dbTransactions)

\* getOrCreateUser(telegramId): the users row is looked up, and created, by the
\* identifier handed in, so the user is told by that identifier
getOrCreateUser(telegramId) == telegramId

\* the row addTransaction inserts for a parse. id is None for a row the server
\* gave its own id, Some(id) for a row uploaded under the desktop's id;
\* sinceLastSync holds while updated_at >= the desktop's lastSyncAt
serverRow(user_id, parsed, source) ==
  [id |-> None, user_id |-> user_id,
   date |-> parsed.date, amount |-> parsed.amount, type |-> parsed.type,
   category |-> parsed.category, merchant |-> parsed.merchant,
   description |-> parsed.description, source |-> source, sinceLastSync |-> TRUE]

\* supabase addTransaction: the insert, or the thrown error when it fails
supabase_addTransaction(rows, row, insertOk) ==
  IF insertOk THEN Append(rows, row) ELSE rows

\* POST /api/transactions with body { text, device_id, source }
api_transactions(text, device_id, source, insertOk) ==
  /\ Stored < MaxStored
  /\ IF text = << >> \/ device_id = None
     THEN /\ apiCall' = [text |-> text, status |-> 400, body |-> NoParse]
          /\ UNCHANGED serverTransactions
     ELSE LET parsed == ParserParsed[text]
          IN IF parsed.amount = 0
             THEN /\ apiCall' = [text |-> text, status |-> 400, body |-> NoParse]
                  /\ UNCHANGED serverTransactions
             ELSE /\ serverTransactions' =
                       supabase_addTransaction(serverTransactions,
                                               serverRow(getOrCreateUser(device_id[1]),
                                                         parsed, source),
                                               insertOk)
                  /\ apiCall' = IF insertOk
                                THEN [text |-> text, status |-> 200, body |-> parsed]
                                ELSE [text |-> text, status |-> 500, body |-> NoParse]

\* bot.use: the middleware calls next() (otherwise it replies 'Unauthorized'
\* and returns, and no handler runs)
bot_use(u) ==
  ~(ALLOWED_USER_ID # None /\ u # ALLOWED_USER_ID[1])

\* parse a message and keep it for confirmation, unless no amount was found
bot_offer(u, text) ==
  LET parsed == ParserParsed[text]
  IN IF parsed.amount = 0
     THEN UNCHANGED pendingTransactions
     ELSE pendingTransactions' = [pendingTransactions EXCEPT ![u] = Some(parsed)]

\* bot.on('message:text')
bot_message_text(u, text) ==
  /\ Stored < MaxStored
  /\ IF ~bot_use(u) \/ text[1] = "/"
     THEN UNCHANGED pendingTransactions
     ELSE bot_offer(u, text)

\* bot.on('message:voice'): transcription is what transcribeFromUrl resolved to,
\* transcribeOk is FALSE when getFile or transcribeFromUrl throws
bot_message_voice(u, transcription, transcribeOk) ==
  /\ Stored < MaxStored
  /\ IF ~bot_use(u) \/ ~transcribeOk \/ Len(trim(transcription)) = 0
     THEN UNCHANGED pendingTransactions
     ELSE bot_offer(u, transcription)

\* bot.callbackQuery('confirm')
bot_confirm(u, insertOk) ==
  LET pending == pendingTransactions[u]
  IN IF ~bot_use(u) \/ pending = None
     THEN UNCHANGED <<pendingTransactions, serverTransactions>>
     ELSE /\ serverTransactions' =
               supabase_addTransaction(serverTransactions,
                                       serverRow(getOrCreateUser(u), pending[1], "telegram"),
                                       insertOk)
          /\ pendingTransactions' =
               IF insertOk THEN [pendingTransactions EXCEPT ![u] = None]
               ELSE pendingTransactions

\* bot.callbackQuery('cancel')
bot_cancel(u) ==
  IF ~bot_use(u) THEN UNCHANGED pendingTransactions
  ELSE pendingTransactions' = [pendingTransactions EXCEPT ![u] = None]

(***************************************************************************)
(* Desktop: VoiceInput, the store and DatabaseService.addTransaction       *)
(***************************************************************************)
\* updateAccountBalance
updateAccountBalance(accounts, accountId, amount, type) ==
  LET delta == IF type = "expense" THEN 0 - Abs(amount)
               ELSE IF type = "income" THEN Abs(amount) ELSE amount
  IN [i \in 1..Len(accounts) |->
        IF accounts[i].id = accountId
        THEN [accounts[i] EXCEPT !.balance = @ + delta] ELSE accounts[i]]

\* the rows before which a new row with this date is listed (date DESC, created_at DESC)
RowsBefore(transactions, date) ==
  Cardinality({ i \in 1..Len(transactions) :
                  ~TextLE(transactions[i].date, date) })

\* DatabaseService.addTransaction: the rows as getTransactions lists them
db_addTransaction(transactions, tx) ==
  LET k == RowsBefore(transactions, tx.date)
  IN SubSeq(transactions, 1, k) \o <<tx>> \o SubSeq(transactions, k + 1, Len(transactions))

\* startListening
startListening ==
  parsedTransaction' = None

\* stopListening in transaction mode: parseVoiceInput(transcript) up to the
\* return or the await inside AIService.parseTransaction
stopListening(transcript) ==
  /\ Stored < MaxStored
  /\ Len(trim(transcript)) > 0
  /\ AIService_parseTransaction(transcript)

\* parseVoiceInput after its await: set({ parsedTransaction: parsed })
parseVoiceInput_resolves ==
  /\ pcall.pc = "done"
  /\ parsedTransaction' = pcall.result
  /\ pcall' = IdleParse

\* handleConfirmTransaction
handleConfirmTransaction ==
  /\ parsedTransaction # None
  /\ LET parsed == parsedTransaction[1]
         category == FindIndex({ i \in 1..Len(getCategories) :
                                   toLowerCase(getCategories[i].name) =
                                     toLowerCase(parsed.category) })
     IN IF category # 0 /\ Len(dbAccounts) > 0
        THEN LET account == dbAccounts[1]
                 amount == IF parsed.type = "expense" THEN 0 - Abs(parsed.amount)
                           ELSE Abs(parsed.amount)
                 tx == [date |-> parsed.date, amount |-> amount, type |-> parsed.type,
                        categoryId |-> category, accountId |-> account.id]
             IN /\ dbTransactions' = db_addTransaction(dbTransactions, tx)
                /\ dbAccounts' = updateAccountBalance(dbAccounts, account.id, amount, parsed.type)
        ELSE UNCHANGED <<dbTransactions, dbAccounts>>
  /\ parsedTransaction' = None

(***************************************************************************)
(* DatabaseService.addTransaction, updateTransaction, deleteTransaction    *)
(*                                                                         *)
(* Here a transaction also carries its id and toAccountId (None unless it  *)
(* is a transfer).                                                         *)
(***************************************************************************)
\* the balance updates of addTransaction, and of the "apply new balance" part
\* of updateTransaction
appliedBalances(accounts, tx) ==
  IF tx.toAccountId # None
  THEN updateAccountBalance(updateAccountBalance(accounts, tx.accountId, tx.amount, tx.type),
                            tx.toAccountId[1], Abs(tx.amount), "income")
  ELSE updateAccountBalance(accounts, tx.accountId, tx.amount, tx.type)

\* the "reverse old balance" part of updateTransaction and deleteTransaction
reversedBalances(accounts, oldTx) ==
  IF oldTx.toAccountId # None
  THEN updateAccountBalance(updateAccountBalance(accounts, oldTx.accountId,
                                                  0 - oldTx.amount, oldTx.type),
                            oldTx.toAccountId[1], 0 - Abs(oldTx.amount), "income")
  ELSE updateAccountBalance(accounts, oldTx.accountId, 0 - oldTx.amount, oldTx.type)

\* SELECT ... FROM transactions WHERE id = ?: the position of the row, or 0
rowOfId(transactions, id) ==
  FindIndex({ i \in 1..Len(transactions) : transactions[i].id = id })

\* the transactions the renderer hands over; an expense carries a negative
\* amount, a transfer the amount that leaves the source account
LedgerInputs == {
  [date |-> <<"2","0","2","4","-","0","3","-","0","1">>, amount |-> 0 - 1000, type |-> "expense", categoryId |-> 1,
   accountId |-> 1, toAccountId |-> None],
  [date |-> <<"2","0","2","4","-","0","3","-","0","1">>, amount |-> 2500, type |-> "income", categoryId |-> 10,
   accountId |-> 2, toAccountId |-> None],
  [date |-> <<"2","0","2","4","-","0","3","-","0","1">>, amount |-> 0 - 700, type |-> "transfer", categoryId |-> 18,
   accountId |-> 1, toAccountId |-> Some(2)] }
LedgerIds == 1..2
\* calls are taken while no balance is further than MaxBalance from 0
MaxBalance == 6000

Database_addTransaction(transaction) ==
  LET id == CHOOSE i \in LedgerIds : rowOfId(dbTransactions, i) = 0
      tx == [id |-> id] @@ transaction
  IN /\ \E i \in LedgerIds : rowOfId(dbTransactions, i) = 0
     /\ dbTransactions' = db_addTransaction(dbTransactions, tx)
     /\ dbAccounts' = appliedBalances(dbAccounts, transaction)

Database_updateTransaction(id, transaction) ==
  LET k == rowOfId(dbTransactions, id)
      reversed == IF k # 0 THEN reversedBalances(dbAccounts, dbTransactions[k])
                  ELSE dbAccounts
  IN /\ dbTransactions' = IF k # 0
                          THEN [dbTransactions EXCEPT ![k] = [id |-> id] @@ transaction]
                          ELSE dbTransactions
     /\ dbAccounts' = appliedBalances(reversed, transaction)

Database_deleteTransaction(id) ==
  LET k == rowOfId(dbTransactions, id)
  IN /\ dbAccounts' = IF k # 0 THEN reversedBalances(dbAccounts, dbTransactions[k])
                       ELSE dbAccounts
     /\ dbTransactions' = IF k # 0
                          THEN SubSeq(dbTransactions, 1, k - 1)
                               \o SubSeq(dbTransactions, k + 1, Len(dbTransactions))
                          ELSE dbTransactions

(***************************************************************************)
(* SpecLedger: the three calls on two accounts that start at balance 0     *)
(***************************************************************************)
LedgerUnchanged == UNCHANGED <<pcall, apiCall, responseCache, now, ticks, qcall,
                               parsedTransaction, dbBudgets, pendingTransactions,
                               serverTransactions, ALLOWED_USER_ID,
          insights, botMessages, botSaves,
          dbSettings, aiSettings, ollamaProvider, modelRequested,
          syncRuns, lastSyncAt, imported>>

InitLedger ==
  /\ pcall = IdleParse
  /\ apiCall = NoRequest
  /\ responseCache = [k \in CacheKeys |-> None]
  /\ now = 0
  /\ ticks = 0
  /\ qcall = << >>
  /\ parsedTransaction = None
  /\ dbTransactions = << >>
  /\ dbAccounts = << [id |-> 1, name |-> <<"C","a","s","h">>, balance |-> 0],
                     [id |-> 2, name |-> <<"B","a","n","k">>, balance |-> 0] >>
  /\ dbBudgets = << >>
  /\ pendingTransactions = << >>
  /\ serverTransactions = << >>
  /\ ALLOWED_USER_ID = None
  /\ insights = << >>
  /\ botMessages = << >>
  /\ botSaves = << >>
  /\ dbSettings = DefaultSettings
  /\ aiSettings = None
  /\ ollamaProvider = None
  /\ modelRequested = None
  /\ syncRuns = << >>
  /\ lastSyncAt = 0
  /\ imported = << >>

\* calls are taken while the balances are within the bound
LedgerOpen == \A i \in 1..Len(dbAccounts) : Abs(dbAccounts[i].balance) <= MaxBalance

NextLedger ==
  \/ \E transaction \in LedgerInputs :
       LedgerOpen /\ Database_addTransaction(transaction) /\ LedgerUnchanged
  \/ \E id \in LedgerIds, transaction \in LedgerInputs :
       LedgerOpen /\ Database_updateTransaction(id, transaction) /\ LedgerUnchanged
  \/ \E id \in LedgerIds :
       LedgerOpen /\ Database_deleteTransaction(id) /\ LedgerUnchanged

SpecLedger == InitLedger /\ [][NextLedger]_vars

(***************************************************************************)
(* SpecBudget: one budget of 50.00 on Groceries, expenses added to the     *)
(* ledger, the budget question, the insights and the clock                 *)
(***************************************************************************)
BudgetQueries == { <<"h","o","w","'","s"," ","m","y"," ","b","u","d","g","e","t">> }

\* the expenses the renderer hands over: 10.00, 40.00 and 45.00 on Groceries
\* this month, and 50.00 on Groceries last month
BudgetInputs == {
  [date |-> <<"2","0","2","4","-","0","3","-","0","1">>, amount |-> 0 - 1000, type |-> "expense", categoryId |-> 1,
   accountId |-> 1, toAccountId |-> None],
  [date |-> <<"2","0","2","4","-","0","3","-","0","1">>, amount |-> 0 - 4000, type |-> "expense", categoryId |-> 1,
   accountId |-> 1, toAccountId |-> None],
  [date |-> <<"2","0","2","4","-","0","3","-","0","1">>, amount |-> 0 - 4500, type |-> "expense", categoryId |-> 1,
   accountId |-> 1, toAccountId |-> None],
  [date |-> <<"2","0","2","4","-","0","2","-","2","7">>, amount |-> 0 - 5000, type |-> "expense", categoryId |-> 1,
   accountId |-> 1, toAccountId |-> None] }

InitBudget ==
  /\ pcall = IdleParse
  /\ apiCall = NoRequest
  /\ responseCache = [k \in { trim(toLowerCase(q)) : q \in BudgetQueries } |-> None]
  /\ now = 0
  /\ ticks = 0
  /\ qcall = [c \in IntentCalls |-> IdleQuery]
  /\ parsedTransaction = None
  /\ dbTransactions = << >>
  /\ dbAccounts = << [id |-> 1, name |-> <<"C","a","s","h">>, balance |-> 0] >>
  /\ dbBudgets = << [categoryId |-> 1, amount |-> 5000] >>
  /\ pendingTransactions = << >>
  /\ serverTransactions = << >>
  /\ ALLOWED_USER_ID = None
  /\ insights = << >>
  /\ botMessages = << >>
  /\ botSaves = << >>
  /\ dbSettings = DefaultSettings
  /\ aiSettings = None
  /\ ollamaProvider = None
  /\ modelRequested = None
  /\ syncRuns = << >>
  /\ lastSyncAt = 0
  /\ imported = << >>

NextBudget ==
  \/ \E c \in IntentCalls, query \in BudgetQueries :
       /\ processQuery(c, query)
       /\ UNCHANGED <<now, ticks>> /\ QueryCallUnchanged
  \/ \E c \in IntentCalls :
       /\ ipc_processQuery_returns(c)
       /\ UNCHANGED <<now, ticks>> /\ QueryUnchanged
  \/ \E d \in TickSteps :
       /\ Tick(d)
       /\ UNCHANGED <<responseCache, qcall>> /\ QueryUnchanged
  \/ \E transaction \in BudgetInputs :
       /\ Database_addTransaction(transaction)
       /\ LedgerUnchanged
  \/ /\ loadInsights
     /\ UNCHANGED <<pcall, apiCall, responseCache, now, ticks, qcall, parsedTransaction,
                    dbTransactions, dbAccounts, dbBudgets, pendingTransactions,
                    serverTransactions, ALLOWED_USER_ID, botMessages, botSaves,
          dbSettings,
          aiSettings,
          ollamaProvider,
          modelRequested,
          syncRuns, lastSyncAt, imported>>

SpecBudget == InitBudget /\ [][NextBudget]_vars

(***************************************************************************)
(* SpecPersist: the three ways a parse reaches a store                     *)
(***************************************************************************)
PersistCallUnchanged == UNCHANGED <<responseCache, now, ticks, qcall, dbBudgets,
                                ALLOWED_USER_ID,
          insights, botMessages, botSaves,
          dbSettings, syncRuns, lastSyncAt, imported>>
PersistUnchanged == PersistCallUnchanged /\ ModelUnchanged
DesktopUnchanged == UNCHANGED <<apiCall, pendingTransactions, serverTransactions>>
BackendUnchanged == UNCHANGED <<pcall, parsedTransaction, dbTransactions, dbAccounts>>

InitPersist ==
  /\ pcall = IdleParse
  /\ apiCall = NoRequest
  /\ responseCache = [k \in CacheKeys |-> None]
  /\ now = 0
  /\ ticks = 0
  /\ qcall = << >>
  /\ parsedTransaction = None
  /\ dbTransactions = << >>
  /\ dbAccounts = << [id |-> 1, name |-> <<"C","a","s","h">>, balance |-> 0] >>
  /\ dbBudgets = << >>
  /\ pendingTransactions = [u \in BotUsers |-> None]
  /\ serverTransactions = << >>
  /\ ALLOWED_USER_ID = Some("u1")
  /\ insights = << >>
  /\ botMessages = << >>
  /\ botSaves = << >>
  /\ dbSettings = DefaultSettings
  /\ aiSettings = None
  /\ ollamaProvider = None
  /\ modelRequested = None
  /\ syncRuns = << >>
  /\ lastSyncAt = 0
  /\ imported = << >>

NextPersist ==
  \/ \E text \in PersistTexts \cup {<< >>}, device_id \in {None, Some(deviceId)},
         source \in {"spotlight"}, insertOk \in BOOLEAN :
       /\ api_transactions(text, device_id, source, insertOk)
       /\ UNCHANGED pendingTransactions /\ BackendUnchanged /\ PersistUnchanged
  \/ \E u \in BotUsers, text \in PersistTexts \cup {<<"/","h","e","l","p">>} :
       /\ bot_message_text(u, text)
       /\ UNCHANGED <<apiCall, serverTransactions>> /\ BackendUnchanged /\ PersistUnchanged
  \/ \E u \in BotUsers, transcription \in PersistTexts \cup {<<" "," ">>},
         transcribeOk \in BOOLEAN :
       /\ bot_message_voice(u, transcription, transcribeOk)
       /\ UNCHANGED <<apiCall, serverTransactions>> /\ BackendUnchanged /\ PersistUnchanged
  \/ \E u \in BotUsers, insertOk \in BOOLEAN :
       /\ bot_confirm(u, insertOk)
       /\ UNCHANGED apiCall /\ BackendUnchanged /\ PersistUnchanged
  \/ \E u \in BotUsers :
       /\ bot_cancel(u)
       /\ UNCHANGED <<apiCall, serverTransactions>> /\ BackendUnchanged /\ PersistUnchanged
  \/ startListening
       /\ UNCHANGED <<pcall, dbTransactions, dbAccounts>> /\ DesktopUnchanged /\ PersistUnchanged
  \/ \E transcript \in PersistTexts \cup {<<" "," ">>} :
       /\ stopListening(transcript)
       /\ UNCHANGED <<parsedTransaction, dbTransactions, dbAccounts>>
       /\ DesktopUnchanged /\ PersistCallUnchanged
  \/ \E object \in PersistObjects :
       /\ generateObject_resolves(object)
       /\ UNCHANGED <<parsedTransaction, dbTransactions, dbAccounts>>
       /\ DesktopUnchanged /\ PersistUnchanged
  \/ generateObject_rejects
       /\ UNCHANGED <<parsedTransaction, dbTransactions, dbAccounts>>
       /\ DesktopUnchanged /\ PersistUnchanged
  \/ parseVoiceInput_resolves
       /\ UNCHANGED <<dbTransactions, dbAccounts>> /\ DesktopUnchanged /\ PersistUnchanged
  \/ handleConfirmTransaction
       /\ UNCHANGED pcall /\ DesktopUnchanged /\ PersistUnchanged

SpecPersist == InitPersist /\ [][NextPersist]_vars

(***************************************************************************)
(* SyncService.sync (desktop) and POST /api/sync (backend)                 *)
(***************************************************************************)
\* SyncService.findCategoryId: the position of the category, or 0
findCategoryId(category, type) ==
  LET categories == getCategories
      wanted == toLowerCase(category)
      exact == { i \in 1..Len(categories) :
                   toLowerCase(categories[i].name) = wanted /\ categories[i].type = type }
      partial == { i \in 1..Len(categories) :
                     /\ includes(toLowerCase(categories[i].name), wanted)
                     /\ categories[i].type = type }
      other == { i \in 1..Len(categories) :
                   categories[i].name = (IF type = "income" THEN <<"O","t","h","e","r"," ","I","n","c","o","m","e">> ELSE <<"O","t","h","e","r">>) }
  IN IF exact # {} THEN MinOf(exact)
     ELSE IF partial # {} THEN MinOf(partial)
     ELSE FindIndex(other)

\* supabase syncTransactions: the upsert, by id, of the rows the desktop
\* uploads, under the user of the request
RECURSIVE syncTransactions(_, _, _)
syncTransactions(rows, userId, transactions) ==
  IF transactions = << >> THEN rows
  ELSE LET tx == Head(transactions)
           name == categoryName(tx.categoryId)
           row == [id |-> Some(tx.id), user_id |-> userId, date |-> tx.date,
                   amount |-> Abs(tx.amount), type |-> tx.type,
                   category |-> IF name # None THEN name[1] ELSE <<"O","t","h","e","r">>,
                   merchant |-> None, description |-> << >>, source |-> "app",
                   sinceLastSync |-> TRUE]
           k == FindIndex({ i \in 1..Len(rows) : rows[i].id = row.id })
       IN syncTransactions(IF k # 0 THEN [rows EXCEPT ![k] = row] ELSE Append(rows, row),
                           userId, Tail(transactions))

\* supabase getTransactionsSince(userId, last_sync_at), newest first
getTransactionsSince(rows, userId) ==
  LET ofUserSince(r) == r.user_id = userId /\ r.sinceLastSync
      found == SelectSeq(rows, ofUserSince)
  IN [i \in 1..Len(found) |-> found[Len(found) + 1 - i]]

\* one round of the loop of sync over data.transactions. A row of another
\* source than 'app' carries an id of the server, which no local row has, so
\* for it `existing` is undefined; a local id is the row's rank of creation
importOne(ledger, serverTx) ==
  IF serverTx.source # "app" /\ Len(ledger.accounts) > 0
  THEN CHOOSE next \in
         { IF categoryId # 0
           THEN [transactions |->
                   db_addTransaction(ledger.transactions,
                     [id |-> Len(ledger.transactions) + 1, date |-> serverTx.date,
                      amount |-> IF serverTx.type = "expense"
                                 THEN 0 - Abs(serverTx.amount) ELSE Abs(serverTx.amount),
                      type |-> serverTx.type, categoryId |-> categoryId,
                      accountId |-> ledger.accounts[1].id, toAccountId |-> None]),
                 accounts |->
                   updateAccountBalance(ledger.accounts, ledger.accounts[1].id,
                                        serverTx.amount, serverTx.type)]
           ELSE ledger :
             categoryId \in { findCategoryId(serverTx.category, serverTx.type) } } : TRUE
  ELSE ledger

\* the loop of sync over data.transactions
RECURSIVE importTransactions(_, _)
importTransactions(ledger, data) ==
  IF data = << >> THEN ledger
  ELSE CHOOSE last \in { importTransactions(next, Tail(data)) :
                           next \in { importOne(ledger, Head(data)) } } : TRUE

\* SyncService.sync. syncEnabled is store.get('syncEnabled') at the call;
\* responseOk is FALSE when the request fails. uploaded: the rows once POST
\* /api/sync has stored the client's rows; ledger: the desktop's tables after
\* the import. After store.set('lastSyncAt'), no row stored so far is newer
\* than lastSyncAt
SyncService_sync(syncEnabled, responseOk) ==
  IF ~syncEnabled \/ ~responseOk
  THEN UNCHANGED <<dbTransactions, dbAccounts, serverTransactions>>
  ELSE \E userId \in { getOrCreateUser(deviceId) } :
       \E uploaded \in { syncTransactions(serverTransactions, userId, dbTransactions) } :
       \E ledger \in { importTransactions([transactions |-> dbTransactions,
                                            accounts |-> dbAccounts],
                                           getTransactionsSince(uploaded, userId)) } :
         /\ dbTransactions' = ledger.transactions
         /\ dbAccounts' = ledger.accounts
         /\ serverTransactions' =
              [i \in 1..Len(uploaded) |->
                 IF uploaded[i].user_id = userId
                 THEN [uploaded[i] EXCEPT !.sinceLastSync = FALSE] ELSE uploaded[i]]

(***************************************************************************)
(* SpecSync: the bot, POST /api/transactions and the desktop's sync        *)
(***************************************************************************)
SyncSenders == { "u1", "u2" }
SyncDevices == { deviceId, "cli" }
SyncTexts == { <<"-","3","0"," ","s","t","u","f","f"," ","a","t"," ","L","i","d","l">>, <<"h","e","l","l","o">> }

InitSync ==
  /\ pcall = IdleParse
  /\ apiCall = NoRequest
  /\ responseCache = [k \in CacheKeys |-> None]
  /\ now = 0
  /\ ticks = 0
  /\ qcall = << >>
  /\ parsedTransaction = None
  /\ dbTransactions = << >>
  /\ dbAccounts = << [id |-> 1, name |-> <<"C","a","s","h">>, balance |-> 0] >>
  /\ dbBudgets = << >>
  /\ pendingTransactions = [u \in SyncSenders |-> None]
  /\ serverTransactions = << >>
  /\ ALLOWED_USER_ID \in { None, Some("u1") }
  /\ insights = << >>
  /\ botMessages = << >>
  /\ botSaves = << >>
  /\ dbSettings = DefaultSettings
  /\ aiSettings = None
  /\ ollamaProvider = None
  /\ modelRequested = None
  /\ syncRuns = << >>
  /\ lastSyncAt = 0
  /\ imported = << >>

sync_succeeds ==
  /\ SyncService_sync(TRUE, TRUE)
  /\ UNCHANGED <<apiCall, pendingTransactions, pcall, parsedTransaction>>
  /\ PersistUnchanged

NextSync ==
  \/ \E text \in SyncTexts, device_id \in SyncDevices, insertOk \in BOOLEAN :
       /\ api_transactions(text, Some(device_id), "spotlight", insertOk)
       /\ UNCHANGED pendingTransactions /\ BackendUnchanged /\ PersistUnchanged
  \/ \E u \in SyncSenders, text \in SyncTexts :
       /\ bot_message_text(u, text)
       /\ UNCHANGED <<apiCall, serverTransactions>> /\ BackendUnchanged /\ PersistUnchanged
  \/ \E u \in SyncSenders, insertOk \in BOOLEAN :
       /\ bot_confirm(u, insertOk)
       /\ UNCHANGED apiCall /\ BackendUnchanged /\ PersistUnchanged
  \/ \E u \in SyncSenders :
       /\ bot_cancel(u)
       /\ UNCHANGED <<apiCall, serverTransactions>> /\ BackendUnchanged /\ PersistUnchanged
  \/ \E syncEnabled \in BOOLEAN, responseOk \in BOOLEAN :
       /\ SyncService_sync(syncEnabled, responseOk)
       /\ UNCHANGED <<apiCall, pendingTransactions, pcall, parsedTransaction>>
       /\ PersistUnchanged

SpecSync == InitSync /\ [][NextSync]_vars

\* startAutoSync: with sync enabled and the backend reachable, sync runs again
\* and again
FairSync == SpecSync /\ WF_vars(sync_succeeds)

(***************************************************************************)
(* Telegram bot: the chat. botMessages holds the messages by which the bot *)
(* offers a parse, in the order sent; a message is told by its position    *)
(* (message_id). shows is the parse that formatTransaction put into the    *)
(* message's text; buttons holds while the message carries the Confirm /   *)
(* Cancel keyboard (editMessageText without reply_markup removes it).      *)
(* bot.start() hands the updates to the handlers one after the other, so   *)
(* a handler runs to its end before the next one starts.                   *)
(***************************************************************************)
MaxMessages == 3

\* the message whose parse the pending entry of user u holds (its messageId):
\* the last message sent to u, or 0
pendingMessage(u) ==
  LET sent == { m \in 1..Len(botMessages) : botMessages[m].user = u }
  IN IF sent = {} THEN 0 ELSE CHOOSE m \in sent : \A k \in sent : k <= m

\* bot.on('message:text') with its reply
bot_on_message_text(u, text) ==
  /\ Len(botMessages) < MaxMessages
  /\ bot_message_text(u, text)
  /\ botMessages' = IF bot_use(u) /\ text[1] # "/" /\ ParserParsed[text].amount # 0
                    THEN Append(botMessages, [user |-> u, shows |-> ParserParsed[text],
                                              buttons |-> TRUE])
                    ELSE botMessages
  /\ UNCHANGED <<serverTransactions, botSaves,
          dbSettings,
          aiSettings,
          ollamaProvider,
          modelRequested,
          syncRuns, lastSyncAt, imported>>

\* how a run of the confirm handler ends once it has found a pending entry:
\* "saved"; "insertThrows", getOrCreateUser or addTransaction throws and no row
\* is stored; "editThrows", the row is stored and a later call
\* (editMessageText, or reading the inserted row back) throws
ConfirmOutcomes == { "saved", "insertThrows", "editThrows" }

\* bot.callbackQuery('confirm') for a press of the Confirm button of message m
bot_on_confirm(u, m, outcome) ==
  LET pending == pendingTransactions[u]
  IN /\ Stored < MaxStored
     /\ m \in 1..Len(botMessages)
     /\ botMessages[m].user = u
     /\ botMessages[m].buttons
     /\ IF ~bot_use(u) \/ pending = None \/ outcome = "insertThrows"
        THEN UNCHANGED <<pendingTransactions, serverTransactions, botMessages, botSaves,
          dbSettings,
          aiSettings,
          ollamaProvider,
          modelRequested,
          syncRuns, lastSyncAt, imported>>
        ELSE /\ serverTransactions' =
                  supabase_addTransaction(serverTransactions,
                                          serverRow(getOrCreateUser(u), pending[1], "telegram"),
                                          TRUE)
             /\ botSaves' = Append(botSaves, [pressed |-> m, pending |-> pendingMessage(u),
                                              parsed |-> pending[1]])
             /\ IF outcome = "editThrows"
                THEN UNCHANGED <<pendingTransactions, botMessages>>
                ELSE /\ botMessages' = [botMessages EXCEPT ![m] =
                                          [@ EXCEPT !.shows = pending[1], !.buttons = FALSE]]
                     /\ pendingTransactions' = [pendingTransactions EXCEPT ![u] = None]

\* bot.callbackQuery('cancel') for a press of the Cancel button of message m
bot_on_cancel(u, m) ==
  /\ m \in 1..Len(botMessages)
  /\ botMessages[m].user = u
  /\ botMessages[m].buttons
  /\ bot_cancel(u)
  /\ botMessages' = IF bot_use(u) THEN [botMessages EXCEPT ![m] = [@ EXCEPT !.buttons = FALSE]]
                    ELSE botMessages
  /\ UNCHANGED <<serverTransactions, botSaves,
          dbSettings,
          aiSettings,
          ollamaProvider,
          modelRequested,
          syncRuns, lastSyncAt, imported>>

(***************************************************************************)
(* SpecBot: one Telegram user, the messages and the button presses         *)
(***************************************************************************)
BotTexts == { <<"-","3","0"," ","s","t","u","f","f"," ","a","t"," ","L","i","d","l">>, <<"-","2","5"," ","b","i","l","l","a">>, <<"h","e","l","l","o">> }

InitBot ==
  /\ pcall = IdleParse
  /\ apiCall = NoRequest
  /\ responseCache = [k \in CacheKeys |-> None]
  /\ now = 0
  /\ ticks = 0
  /\ qcall = << >>
  /\ parsedTransaction = None
  /\ dbTransactions = << >>
  /\ dbAccounts = << >>
  /\ dbBudgets = << >>
  /\ pendingTransactions = [u \in BotUsers |-> None]
  /\ serverTransactions = << >>
  /\ ALLOWED_USER_ID = Some("u1")
  /\ insights = << >>
  /\ botMessages = << >>
  /\ botSaves = << >>
  /\ dbSettings = DefaultSettings
  /\ aiSettings = None
  /\ ollamaProvider = None
  /\ modelRequested = None
  /\ syncRuns = << >>
  /\ lastSyncAt = 0
  /\ imported = << >>

BotUnchanged == UNCHANGED <<pcall, apiCall, responseCache, now, ticks, qcall,
                            parsedTransaction, dbTransactions, dbAccounts, dbBudgets,
                            ALLOWED_USER_ID, insights,
                            dbSettings, aiSettings, ollamaProvider, modelRequested,
          syncRuns, lastSyncAt, imported>>

NextBot ==
  \/ \E u \in BotUsers, text \in BotTexts :
       bot_on_message_text(u, text) /\ BotUnchanged
  \/ \E u \in BotUsers, m \in 1..MaxMessages, outcome \in ConfirmOutcomes :
       bot_on_confirm(u, m, outcome) /\ BotUnchanged
  \/ \E u \in BotUsers, m \in 1..MaxMessages :
       bot_on_cancel(u, m) /\ BotUnchanged

SpecBot == InitBot /\ [][NextBot]_vars

(***************************************************************************)
(* SpecSettings: the settings change between the calls of the AIService    *)
(***************************************************************************)
\* Partial<Settings> objects the renderer sends to 'settings:set'
SettingsUpdates ==
  { [aiProvider |-> "openai", openaiApiKey |-> "sk-1", ollamaModel |-> "gpt-4o"],
    [aiProvider |-> "anthropic", anthropicApiKey |-> "sk-ant-1", ollamaModel |-> ""],
    [aiProvider |-> "ollama", ollamaModel |-> "mistral"],
    [ollamaEndpoint |-> "http://gpu:11434"],
    [openaiApiKey |-> ""] }

SettingsTexts == { <<"h","e","l","l","o">>, <<"-","2","5"," ","b","i","l","l","a">> }
SettingsQueries == { <<"H","e","l","l","o">>, <<"B","u","d","g","e","t","?">> }

InitSettings ==
  /\ pcall = IdleParse
  /\ apiCall = NoRequest
  /\ responseCache = [k \in { trim(toLowerCase(q)) : q \in SettingsQueries } |-> None]
  /\ now = 0
  /\ ticks = 0
  /\ qcall = [c \in IntentCalls |-> IdleQuery]
  /\ parsedTransaction = None
  /\ dbTransactions = << >>
  /\ dbAccounts = << [id |-> 1, name |-> <<"C","a","s","h">>, balance |-> 0] >>
  /\ dbBudgets = << >>
  /\ pendingTransactions = << >>
  /\ serverTransactions = << >>
  /\ ALLOWED_USER_ID = None
  /\ insights = << >>
  /\ botMessages = << >>
  /\ botSaves = << >>
  /\ dbSettings = DefaultSettings
  /\ aiSettings = None
  /\ ollamaProvider = None
  /\ modelRequested = None
  /\ syncRuns = << >>
  /\ lastSyncAt = 0
  /\ imported = << >>

NextSettings ==
  \/ \E updates \in SettingsUpdates :
       /\ settings_set(updates)
       /\ UNCHANGED <<pcall, apiCall, responseCache, now, ticks, qcall, parsedTransaction,
                      dbTransactions, dbAccounts, dbBudgets, pendingTransactions,
                      serverTransactions, ALLOWED_USER_ID, insights, botMessages, botSaves,
                      aiSettings, ollamaProvider, modelRequested,
          syncRuns, lastSyncAt, imported>>
  \/ \E text \in SettingsTexts :
       AIService_parseTransaction(text) /\ UNCHANGED apiCall /\ ParseCallUnchanged
  \/ \E object \in PersistObjects :
       generateObject_resolves(object) /\ UNCHANGED apiCall /\ OtherUnchanged
  \/ generateObject_rejects /\ UNCHANGED apiCall /\ OtherUnchanged
  \/ ipc_parseTransaction_returns /\ UNCHANGED apiCall /\ OtherUnchanged
  \/ \E c \in IntentCalls, query \in SettingsQueries :
       processQuery(c, query) /\ UNCHANGED <<now, ticks>> /\ QueryCallUnchanged
  \/ \E c \in IntentCalls, text \in ModelTexts :
       generateText_resolves(c, text) /\ UNCHANGED <<now, ticks>> /\ QueryUnchanged
  \/ \E c \in IntentCalls :
       generateText_rejects(c) /\ UNCHANGED <<now, ticks>> /\ QueryUnchanged
  \/ \E c \in IntentCalls :
       ipc_processQuery_returns(c) /\ UNCHANGED <<now, ticks>> /\ QueryUnchanged

SpecSettings == InitSettings /\ [][NextSettings]_vars

(***************************************************************************)
(* SyncService.sync, step by step. A run is the call of sync() up to its   *)
(* await of fetch, then the backend's handling of POST /api/sync, then the *)
(* rest of sync() from the response on, which has no await in it. The time *)
(* of an insert on the server is told by the row's position: a row the     *)
(* server inserted is newer than last_sync_at when it lies behind the rows *)
(* counted at synced_at; a row of source 'app' is upserted with            *)
(* updated_at = now by the request itself.                                 *)
(***************************************************************************)
\* the callers of sync(): the timer of startAutoSync and 'sync:now'
SyncRuns == { "timer", "now" }

\* runs start while fewer than MaxImported rows were imported
MaxImported == 3

IdleSync == [pc |-> "idle", last_sync_at |-> 0, transactions |-> << >>,
             data |-> << >>, keys |-> << >>, synced_at |-> 0]

\* sync() with syncEnabled up to `await fetch`: config.lastSyncAt and the
\* local transactions are read here
sync_starts(run) ==
  /\ syncRuns[run].pc = "idle"
  /\ Len(imported) < MaxImported
  /\ syncRuns' = [syncRuns EXCEPT ![run] =
                    [IdleSync EXCEPT !.pc = "fetching", !.last_sync_at = lastSyncAt,
                                     !.transactions = dbTransactions]]

\* getTransactionsSince(userId, last_sync_at) by position, newest first
RECURSIVE sinceKeys(_, _, _, _)
sinceKeys(rows, userId, last_sync_at, i) ==
  IF i = 0 THEN << >>
  ELSE IF rows[i].user_id = userId /\ (rows[i].source = "app" \/ i > last_sync_at)
  THEN <<i>> \o sinceKeys(rows, userId, last_sync_at, i - 1)
  ELSE sinceKeys(rows, userId, last_sync_at, i - 1)

\* POST /api/sync for the request of a run, and the run's `await
\* response.json()`; with responseOk FALSE the run throws
api_sync(run, responseOk) ==
  /\ syncRuns[run].pc = "fetching"
  /\ IF ~responseOk
     THEN /\ syncRuns' = [syncRuns EXCEPT ![run] = IdleSync]
          /\ UNCHANGED serverTransactions
     ELSE \E userId \in { getOrCreateUser(deviceId) } :
          \E uploaded \in { syncTransactions(serverTransactions, userId,
                                             syncRuns[run].transactions) } :
          \E keys \in { sinceKeys(uploaded, userId, syncRuns[run].last_sync_at,
                                  Len(uploaded)) } :
            /\ serverTransactions' = uploaded
            /\ syncRuns' = [syncRuns EXCEPT ![run] =
                              [@ EXCEPT !.pc = "importing",
                                        !.data = [i \in 1..Len(keys) |-> uploaded[keys[i]]],
                                        !.keys = keys,
                                        !.synced_at = Len(uploaded)]]

\* the rounds of the loop that call db.addTransaction
addsRow(accounts, serverTx) ==
  importOne([transactions |-> << >>, accounts |-> accounts], serverTx).transactions # << >>

\* sync() from the response on: the loop over data.transactions and
\* store.set('lastSyncAt', data.synced_at). failAt = 0: the loop completes;
\* failAt = k > 0: round k throws, after the rounds before it
sync_imports(run, failAt) ==
  /\ syncRuns[run].pc = "importing"
  /\ failAt <= Len(syncRuns[run].data)
  /\ \E n \in { IF failAt = 0 THEN Len(syncRuns[run].data) ELSE failAt - 1 } :
     \E ledger \in { importTransactions([transactions |-> dbTransactions,
                                          accounts |-> dbAccounts],
                                         SubSeq(syncRuns[run].data, 1, n)) } :
       /\ dbTransactions' = ledger.transactions
       /\ dbAccounts' = ledger.accounts
       /\ imported' = imported \o
            SelectSeq(SubSeq(syncRuns[run].keys, 1, n),
                      LAMBDA k : addsRow(dbAccounts, serverTransactions[k]))
  /\ lastSyncAt' = IF failAt = 0 THEN syncRuns[run].synced_at ELSE lastSyncAt
  /\ syncRuns' = [syncRuns EXCEPT ![run] = IdleSync]

(***************************************************************************)
(* SpecImport: rows of an external source arrive, and runs of sync overlap *)
(***************************************************************************)
ImportTexts == { <<"-","3","0"," ","s","t","u","f","f"," ","a","t"," ","L","i","d","l">>, <<"-","2","5"," ","b","i","l","l","a">> }
MaxData == 3

InitImport ==
  /\ pcall = IdleParse
  /\ apiCall = NoRequest
  /\ responseCache = [k \in CacheKeys |-> None]
  /\ now = 0
  /\ ticks = 0
  /\ qcall = << >>
  /\ parsedTransaction = None
  /\ dbTransactions = << >>
  /\ dbAccounts = << [id |-> 1, name |-> <<"C","a","s","h">>, balance |-> 0] >>
  /\ dbBudgets = << >>
  /\ pendingTransactions = << >>
  /\ serverTransactions = << >>
  /\ ALLOWED_USER_ID = None
  /\ insights = << >>
  /\ botMessages = << >>
  /\ botSaves = << >>
  /\ dbSettings = DefaultSettings
  /\ aiSettings = None
  /\ ollamaProvider = None
  /\ modelRequested = None
  /\ syncRuns = [run \in SyncRuns |-> IdleSync]
  /\ lastSyncAt = 0
  /\ imported = << >>

ImportUnchanged == UNCHANGED <<pcall, responseCache, now, ticks, qcall, parsedTransaction,
                               dbBudgets, pendingTransactions, ALLOWED_USER_ID, insights,
                               botMessages, botSaves, dbSettings, aiSettings,
                               ollamaProvider, modelRequested>>

NextImport ==
  \/ \E text \in ImportTexts :
       /\ api_transactions(text, Some(deviceId), "spotlight", TRUE)
       /\ UNCHANGED <<dbTransactions, dbAccounts, syncRuns, lastSyncAt, imported>>
       /\ ImportUnchanged
  \/ \E run \in SyncRuns :
       /\ sync_starts(run)
       /\ UNCHANGED <<apiCall, serverTransactions, dbTransactions, dbAccounts,
                      lastSyncAt, imported>>
       /\ ImportUnchanged
  \/ \E run \in SyncRuns, responseOk \in BOOLEAN :
       /\ api_sync(run, responseOk)
       /\ UNCHANGED <<apiCall, dbTransactions, dbAccounts, lastSyncAt, imported>>
       /\ ImportUnchanged
  \/ \E run \in SyncRuns, failAt \in 0..MaxData :
       /\ sync_imports(run, failAt)
       /\ UNCHANGED <<apiCall, serverTransactions>>
       /\ ImportUnchanged

SpecImport == InitImport /\ [][NextImport]_vars

(***************************************************************************)
(* Properties                                                              *)
(***************************************************************************)

\* C1: parseTransaction calls generateObject if and only if the rule-based
\* confidence is below 0.75, and then once; a rule-based result with
\* confidence >= 0.75 is returned unchanged with no external call.
C1_EscalatesOnceBelowThreshold ==
  pcall.pc # "idle" =>
    /\ pcall.rulesBased = parseWithRules(pcall.text)
    /\ pcall.generateObjectCalls \in {0, 1}
    /\ (pcall.generateObjectCalls = 1) <=> (pcall.rulesBased.confidence < 75)
    /\ pcall.rulesBased.confidence >= 75 =>
         /\ pcall.pc = "done"
         /\ pcall.escalation = "none"
         /\ pcall.result = Some(parseWithRules(pcall.text))

C1_Witness ==
  /\ pcall.pc = "done"
  /\ pcall.rulesBased.confidence < 75
  /\ pcall.generateObjectCalls = 1
  /\ pcall.escalation = "resolved"
  /\ pcall.result # Some(pcall.rulesBased)

\* C2: when the escalation step of parseTransaction fails, the call returns
\* exactly the rule-based result computed before it and raises no error.
C2_FallbackOnEscalationError ==
  (pcall.pc = "done" /\ pcall.escalation = "rejected") =>
    /\ pcall.result = Some(parseWithRules(pcall.text))
    /\ ~pcall.error

C2_Witness ==
  /\ pcall.pc = "done"
  /\ pcall.escalation = "rejected"
  /\ pcall.generateObjectCalls = 1
  /\ pcall.result = Some(pcall.rulesBased)

\* C3: for every query and every outcome of the narrative call, processQuery
\* returns a non-empty string and does not throw.
C3_AnswerNonEmpty ==
  \A c \in QueryCalls :
    qcall[c].pc = "done" =>
      /\ ~qcall[c].error
      /\ qcall[c].result # None
      /\ qcall[c].result[1] # << >>

\* C4: a processQuery call that finds a cache entry for the normalized query
\* younger than 5 minutes returns that entry's text and performs no ledger
\* computation, no narrative call and no cache write.
C4_FreshEntryIsReturned ==
  [][\A c \in QueryCalls :
       LET key == trim(toLowerCase(qcall'[c].query))
       IN (/\ qcall[c].pc = "idle"
           /\ qcall'[c].pc # "idle"
           /\ responseCache[key] # None
           /\ now - responseCache[key][1].timestamp < 300000)
          => /\ qcall'[c].pc = "done"
             /\ qcall'[c].result = Some(responseCache[key][1].response)
             /\ qcall'[c].handleLocalQueryCalls = 0
             /\ qcall'[c].generateTextCalls = 0
             /\ qcall'[c].cacheWrites = 0
             /\ responseCache' = responseCache]_vars

C4_Witness ==
  \E c \in QueryCalls :
    /\ qcall[c].pc = "done"
    /\ qcall[c].cacheHit
    /\ responseCache[qcall[c].cacheKey] # None
    /\ qcall[c].startedAt - responseCache[qcall[c].cacheKey][1].timestamp = 299999
    /\ qcall[c].result = Some(responseCache[qcall[c].cacheKey][1].response)

\* C5 as stated: of any two processQuery calls with equal normalized queries
\* issued within 5 minutes of each other, only one computes or calls the
\* narrative model.
C5_OneComputationPerWindow ==
  \A c, d \in QueryCalls :
    (/\ c # d
     /\ qcall[c].pc # "idle"
     /\ qcall[d].pc # "idle"
     /\ trim(toLowerCase(qcall[c].query)) = trim(toLowerCase(qcall[d].query))
     /\ Abs(qcall[c].startedAt - qcall[d].startedAt) < 300000)
    => /\ qcall[c].handleLocalQueryCalls + qcall[d].handleLocalQueryCalls <= 1
       /\ qcall[c].generateTextCalls + qcall[d].generateTextCalls <= 1

\* C5 amended: when a call has completed having stored its answer in the
\* cache, a call with an equal normalized query issued after it, less than 5
\* minutes after the first was issued, returns the string cached for the key
\* and performs no ledger computation, no narrative call and no cache write.
C5_SecondCallAfterStoredAnswer ==
  [][\A c, d \in QueryCalls :
       (/\ c # d
        /\ qcall[c].pc = "idle"
        /\ qcall'[c].pc # "idle"
        /\ qcall[d].pc = "done"
        /\ qcall[d].cacheWrites = 1
        /\ trim(toLowerCase(qcall'[c].query)) = trim(toLowerCase(qcall[d].query))
        /\ now - qcall[d].startedAt < 300000)
       => /\ qcall'[c].pc = "done"
          /\ responseCache[trim(toLowerCase(qcall[d].query))] # None
          /\ qcall'[c].result =
               Some(responseCache[trim(toLowerCase(qcall[d].query))][1].response)
          /\ qcall'[c].handleLocalQueryCalls = 0
          /\ qcall'[c].generateTextCalls = 0
          /\ qcall'[c].cacheWrites = 0]_vars

C5_Witness ==
  \E c, d \in QueryCalls :
    /\ c # d
    /\ qcall[d].pc = "done"
    /\ qcall[d].cacheWrites = 1
    /\ qcall[d].generateTextCalls = 1
    /\ qcall[c].pc = "done"
    /\ qcall[c].cacheHit
    /\ qcall[c].query # qcall[d].query
    /\ qcall[c].cacheKey = qcall[d].cacheKey
    /\ qcall[c].startedAt > qcall[d].startedAt
    /\ qcall[c].startedAt - qcall[d].startedAt < 300000
    /\ qcall[c].result = qcall[d].result

\* C6: no flow that parses a text and then stores a transaction stores a
\* parse result whose amount is 0.
C6_NoZeroAmountStored ==
  /\ \A i \in 1..Len(serverTransactions) : serverTransactions[i].amount # 0
  /\ \A i \in 1..Len(dbTransactions) : dbTransactions[i].amount # 0

\* the category is the name of a catalog category of the result's type, or
\* the fallback of the type
CategoryOfCatalog(parsed, catalog) ==
  \/ \E i \in 1..Len(catalog) :
       catalog[i].name = parsed.category /\ catalog[i].type = parsed.type
  \/ parsed.type = "expense" /\ parsed.category = <<"O","t","h","e","r">>
  \/ parsed.type = "income" /\ parsed.category = <<"O","t","h","e","r"," ","I","n","c","o","m","e">>

\* C7: every result a parser returns has a category that is the name of a
\* catalog category of the result's type, or the fallback 'Other' (expense) /
\* 'Other Income' (income).
C7_CategoryInCatalog ==
  /\ pcall.pc = "done" => CategoryOfCatalog(pcall.result[1], getCategories)
  /\ apiCall.status = 200 => CategoryOfCatalog(apiCall.body, DEFAULT_CATEGORIES)

\* C8: every result a parser returns has amount >= 0, on the rule-based path
\* and on the validated model path, for a model amount of either sign.
C8_AmountNonNegative ==
  /\ pcall.pc # "idle" => pcall.rulesBased.amount >= 0
  /\ pcall.pc = "done" => pcall.result[1].amount >= 0
  /\ apiCall.status = 200 => apiCall.body.amount >= 0

C8_Witness ==
  /\ pcall.pc = "done"
  /\ pcall.escalation = "resolved"
  /\ pcall.result[1].amount = 4500
  /\ pcall.result[1].type = "income"

\* the text holds the sign directly before a digit
SignBeforeNumber(text, sign) ==
  \E i \in 1..(Len(text) - 1) : text[i] = sign /\ IsDigit(text[i + 1])

TypeOfSign(text, type) ==
  /\ SignBeforeNumber(text, "+") => type = "income"
  /\ SignBeforeNumber(text, "-") => type = "expense"

\* C9: for a text with an explicit '+' or '-' next to a number, the
\* rule-based type follows the sign whatever keywords the text holds.
C9_SignDecidesType ==
  /\ pcall.pc # "idle" => TypeOfSign(pcall.text, pcall.rulesBased.type)
  /\ apiCall.status = 200 => TypeOfSign(apiCall.text, apiCall.body.type)

\* C10: when the narrative call throws, processQuery returns the help
\* message and writes nothing to the cache: the cache never holds the help
\* message, and a key that missed before the throw still misses after it.
C10_HelpMessageNotCached ==
  [][\A c \in QueryCalls :
       (~qcall[c].threw /\ qcall'[c].threw)
       => /\ handleLocalQuery(toLowerCase(qcall[c].query), dbTransactions,
                              dbAccounts, dbBudgets) = None
          /\ qcall'[c].pc = "done"
          /\ ~qcall'[c].error
          /\ qcall'[c].result = Some(HELP_MESSAGE)
          /\ qcall'[c].cacheWrites = 0
          /\ responseCache' = responseCache
          /\ now' = now
          /\ \A k \in CacheKeys :
               responseCache'[k] = None \/ responseCache'[k][1].response # HELP_MESSAGE]_vars

C10_Witness ==
  \E c, d \in QueryCalls :
    /\ qcall[d].pc = "done"
    /\ qcall[d].threw
    /\ qcall[d].result = Some(HELP_MESSAGE)
    /\ qcall[c].pc = "awaiting"
    /\ qcall[c].cacheKey = qcall[d].cacheKey
    /\ qcall[c].startedAt = qcall[d].startedAt
    /\ responseCache[qcall[d].cacheKey] = None

\* C11: a cache entry whose age has reached 5 minutes is not returned, and the
\* lookup of its key evicts it: after the lookup the cache holds for the key
\* no entry or an entry newly written by a successful computation.
C11_ExpiredEntryEvicted ==
  [][\A c \in QueryCalls :
       LET key == trim(toLowerCase(qcall'[c].query))
       IN (/\ qcall[c].pc = "idle"
           /\ qcall'[c].pc # "idle"
           /\ responseCache[key] # None
           /\ now - responseCache[key][1].timestamp >= 300000)
          => /\ ~qcall'[c].cacheHit
             /\ \/ responseCache'[key] = None
                \/ responseCache'[key][1].timestamp = now]_vars

\* C12: between a call's cache lookup and its cache write no other call reads
\* or writes the cache: while a call is awaiting the narrative call, no other
\* call performs its lookup or its write.
C12_NoAccessBetweenLookupAndWrite ==
  [][\A c, d \in QueryCalls :
       (c # d /\ qcall[c].pc = "awaiting")
       => /\ ~(qcall[d].pc = "idle" /\ qcall'[d].pc # "idle")
          /\ ~(qcall[d].pc = "awaiting" /\ qcall'[d].cacheWrites = 1)]_vars

\* an object that is already valid: its category is a name of the catalog, its
\* amount is not negative, its date has the form YYYY-MM-DD and its confidence
\* lies in [0, 1]
AlreadyValid(object) ==
  /\ \E i \in 1..Len(getCategories) : getCategories[i].name = object.category
  /\ object.amount >= 0
  /\ IsISODate(object.date)
  /\ object.confidence \in 0..100

\* C13: validateAndEnrich applied to an already-valid object is a no-op for
\* category, amount and date: the result returned for such an object carries
\* the object's own category, amount and date.
C13_ValidObjectUnchanged ==
  [][\A object \in ModelObjects :
       (generateObject_resolves(object) /\ AlreadyValid(object))
       => /\ pcall'.result[1].category = object.category
          /\ pcall'.result[1].amount = object.amount
          /\ pcall'.result[1].date = object.date]_vars

C13_Witness ==
  /\ pcall.escalation = "resolved"
  /\ pcall.result[1].category = <<"I","n","v","e","s","t","m","e","n","t","s">>
  /\ pcall.result[1].amount = 1250
  /\ pcall.result[1].date = <<"2","0","2","4","-","0","2","-","2","8">>

startsWith(s, prefix) ==
  Len(s) >= Len(prefix) /\ SubSeq(s, 1, Len(prefix)) = prefix

\* the first intent, in the order of Intents, that has a trigger word in the
\* query; "none" when no intent has one
firstIntent(query) ==
  LET hits == { i \in 1..Len(Intents) : includesAny(query, Intents[i].triggers) }
  IN IF hits = {} THEN "none" ELSE Intents[MinOf(hits)].name

\* the intent an answer belongs to, read off its wording
intentOfAnswer(answer) ==
  IF \/ startsWith(answer, <<"Y","o","u","'","v","e"," ","s","p","e","n","t"," ">>) \/ startsWith(answer, <<"T","o","p"," ","s","p","e","n","d","i","n","g">>)
     \/ startsWith(answer, <<"N","o"," ","e","x","p","e","n","s","e","s"," ","r","e","c","o","r","d","e","d">>) THEN "spending"
  ELSE IF startsWith(answer, <<"Y","o","u","r"," ","i","n","c","o","m","e"," ","t","h","i","s"," ","m","o","n","t","h">>) THEN "income"
  ELSE IF startsWith(answer, <<"T","o","t","a","l"," ","b","a","l","a","n","c","e">>) THEN "balance"
  ELSE IF \/ startsWith(answer, <<"B","u","d","g","e","t"," ","S","t","a","t","u","s",":">>)
          \/ startsWith(answer, <<"Y","o","u"," ","h","a","v","e","n","'","t"," ","s","e","t"," ","u","p"," ","a","n","y"," ","b","u","d","g","e","t","s">>) THEN "budget"
  ELSE IF \/ startsWith(answer, <<"Y","o","u","'","v","e"," ","s","a","v","e","d"," ">>)
          \/ startsWith(answer, <<"Y","o","u","'","r","e"," ","s","p","e","n","d","i","n","g"," ">>) THEN "savings"
  ELSE IF Len(answer) > 17 /\ SubSeq(answer, 2, 18) = <<" ","M","o","n","t","h","l","y"," ","S","u","m","m","a","r","y",":">> THEN "summary"
  ELSE "none"

\* C14: handleLocalQuery answers a question by the first intent, in the order
\* spending, income, balance, budget, savings, summary, that has a trigger
\* word in the question, and returns null (so that the narrative call is made)
\* exactly when no intent has one.
C14_FirstIntentAnswers ==
  \A c \in QueryCalls :
    (qcall[c].handleLocalQueryCalls = 1)
    => LET intent == firstIntent(toLowerCase(qcall[c].query))
       IN /\ (qcall[c].generateTextCalls = 1) <=> (intent = "none")
          /\ (qcall[c].generateTextCalls = 0)
             => intentOfAnswer(qcall[c].result[1]) = intent

C14_Witness ==
  \E c \in QueryCalls :
    /\ qcall[c].pc = "done"
    /\ qcall[c].query = <<"b","u","d","g","e","t"," ","b","a","l","a","n","c","e">>
    /\ qcall[c].handleLocalQueryCalls = 1
    /\ intentOfAnswer(qcall[c].result[1]) = "balance"

\* C15: for a question of the budget intent and of no earlier intent, asked
\* while no budget is configured, processQuery returns the literal "You
\* haven't set up any budgets yet." and calls no external service, whatever
\* the transactions are.
C15_NoBudgetsLiteral ==
  [][\A c \in IntentCalls :
       (/\ qcall[c].pc = "idle"
        /\ qcall'[c].pc # "idle"
        /\ firstIntent(toLowerCase(qcall'[c].query)) = "budget"
        /\ dbBudgets = << >>)
       => /\ qcall'[c].pc = "done"
          /\ qcall'[c].result = Some(<<"Y","o","u"," ","h","a","v","e","n","'","t"," ","s","e","t"," ","u","p"," ","a","n","y"," ","b","u","d","g","e","t","s"," ","y","e","t",".">>)
          /\ qcall'[c].generateTextCalls = 0]_vars

\* C16: after resetAllData returns true there are no transactions and no
\* budgets and every account has balance 0, while the accounts are the same
\* accounts as before.
C16_ResetEmptiesLedger ==
  [][resetAllData("none")
     => /\ dbTransactions' = << >>
        /\ dbBudgets' = << >>
        /\ Len(dbAccounts') = Len(dbAccounts)
        /\ \A i \in 1..Len(dbAccounts) :
             /\ dbAccounts'[i].balance = 0
             /\ dbAccounts'[i].id = dbAccounts[i].id
             /\ dbAccounts'[i].name = dbAccounts[i].name]_vars

C16_Witness ==
  /\ dbTransactions = << >>
  /\ dbBudgets = << >>
  /\ Len(dbAccounts) > 0
  /\ \A i \in 1..Len(dbAccounts) : dbAccounts[i].balance = 0

\* a keyword of parseWithRules' categoryKeywords occurs in the text
rulesKeywordMatched(text) ==
  \E i \in 1..Len(categoryKeywords) :
    includesAny(toLowerCase(text), categoryKeywords[i].keywords)

\* a keyword of a backend category of the parse's type occurs in the text
parserKeywordMatched(text) ==
  LET lowerText == trim(toLowerCase(text))
      type == parserType(lowerText, parserAmount(text).explicitSign)
  IN \E i \in 1..Len(DEFAULT_CATEGORIES) :
       /\ DEFAULT_CATEGORIES[i].type = type
       /\ includesAny(lowerText, DEFAULT_CATEGORIES[i].keywords)

effectOn(tx, accountId) ==
  (IF tx.accountId = accountId
   THEN IF tx.type = "expense" THEN 0 - Abs(tx.amount)
        ELSE IF tx.type = "income" THEN Abs(tx.amount) ELSE tx.amount
   ELSE 0)
  + (IF tx.toAccountId = Some(accountId) THEN Abs(tx.amount) ELSE 0)

RECURSIVE sumOfEffects(_, _)
sumOfEffects(transactions, accountId) ==
  IF transactions = << >> THEN 0
  ELSE effectOn(Head(transactions), accountId) + sumOfEffects(Tail(transactions), accountId)

\* C19: after any sequence of addTransaction, updateTransaction and
\* deleteTransaction on accounts that start at balance 0, the balance of each
\* account is the sum of the effects of the transactions stored.
C19_BalanceIsSumOfEffects ==
  \A i \in 1..Len(dbAccounts) :
    dbAccounts[i].balance = sumOfEffects(dbTransactions, dbAccounts[i].id)

\* C17: a sender who is not the allowed user is served by no handler: no
\* pending transaction is kept for that sender and no row is stored for that
\* sender.
C17_OnlyAllowedUserServed ==
  \A u \in SyncSenders :
    (ALLOWED_USER_ID # Some(u))
    => /\ pendingTransactions[u] = None
       /\ \A i \in 1..Len(serverTransactions) : serverTransactions[i].user_id # u

\* a transaction of the desktop database that came from this parse
importedFrom(parsed) ==
  \E i \in 1..Len(dbTransactions) :
    /\ dbTransactions[i].date = parsed.date
    /\ Abs(dbTransactions[i].amount) = parsed.amount
    /\ dbTransactions[i].type = parsed.type

\* C18: every transaction stored on the server by the bot or by POST
\* /api/transactions is imported into the desktop database by some later sync.
C18_ServerRowsReachDesktop ==
  \A text \in SyncTexts, user \in SyncSenders \cup SyncDevices :
    (\E i \in 1..Len(serverTransactions) :
       /\ serverTransactions[i].source # "app"
       /\ serverTransactions[i].user_id = user
       /\ serverTransactions[i].date = ParserParsed[text].date
       /\ serverTransactions[i].amount = ParserParsed[text].amount)
    ~> importedFrom(ParserParsed[text])

\* the category the resolution order names for a model object: the first
\* catalog category whose name equals the object's category without regard to
\* case; else the first one whose name contains it; else, an empty category
\* included, the fallback of the object's type
categoryByOrder(object) ==
  LET wanted == toLowerCase(object.category)
      exact == { i \in 1..Len(getCategories) : toLowerCase(getCategories[i].name) = wanted }
      partial == { i \in 1..Len(getCategories) :
                     wanted # << >> /\ includes(toLowerCase(getCategories[i].name), wanted) }
  IN IF exact # {} THEN getCategories[MinOf(exact)].name
     ELSE IF partial # {} THEN getCategories[MinOf(partial)].name
     ELSE IF object.type = "income" THEN <<"O","t","h","e","r"," ","I","n","c","o","m","e">> ELSE <<"O","t","h","e","r">>

\* C21: validateAndEnrich resolves the model's category in the order exact
\* name (case-insensitive), else substring containment, else the fallback of
\* the result's type ('Other' / 'Other Income'), the fallback also for an
\* empty returned category.
C21_CategoryResolutionOrder ==
  [][\A object \in ModelObjects :
       generateObject_resolves(object)
       => pcall'.result[1].category = categoryByOrder(object)]_vars

\* C22: validateAndEnrich clamps the confidence into [0, 1]: the result's
\* confidence is min(1, max(0, c)) for every model confidence c, so a
\* confidence already in [0, 1], 0 included, is left as it is.
C22_ConfidenceClamped ==
  [][\A object \in ModelObjects :
       generateObject_resolves(object)
       => pcall'.result[1].confidence = Min(100, Max(0, object.confidence))]_vars

\* the status markers of a budget answer, one per line after the heading:
\* the element that follows each line break
budgetMarks(answer) ==
  LET breaks == { k \in 1..(Len(answer) - 1) : answer[k] = "\n" }
      nth(i) == CHOOSE k \in breaks : Cardinality({ j \in breaks : j <= k }) = i
  IN [i \in 1..Cardinality(breaks) |-> answer[nth(i) + 1]]

classOfMark(mark) ==
  IF mark = ":red_circle:" THEN "over" ELSE IF mark = ":yellow_circle:" THEN "near" ELSE "ok"

\* over at 100% of the amount or more, near from 80% up to 100%, ok below
classOfThresholds(spent, amount) ==
  IF 100 * spent >= 100 * amount THEN "over"
  ELSE IF 100 * spent >= 80 * amount THEN "near" ELSE "ok"

\* what the insights say of the budget at position i
classOfInsights(list, i) ==
  IF \E k \in 1..Len(list) : list[k].id = "budget-over" /\ list[k].budget = i THEN "over"
  ELSE IF \E k \in 1..Len(list) : list[k].id = "budget-warning" /\ list[k].budget = i
       THEN "near" ELSE "ok"

\* this month's expenses of the budget's category
spentOfBudget(budget, transactions) ==
  LET counts(t) == /\ t.categoryId = budget.categoryId /\ t.type = "expense"
                   /\ SubSeq(t.date, 1, 7) = SubSeq(ISODate(Today), 1, 7)
  IN sumAbsAmount(SelectSeq(transactions, counts))

\* C23: the budget answer marks each budget over at 100% of its amount or
\* more, near from 80% up to 100% and ok below, and this mark agrees with the
\* over-budget and budget-alert insights that getInsights produces from the
\* same ledger.
C23_BudgetMarksAgreeWithInsights ==
  [][\A c \in IntentCalls :
       (/\ qcall[c].pc = "idle"
        /\ qcall'[c].handleLocalQueryCalls = 1
        /\ qcall'[c].result # None
        /\ startsWith(qcall'[c].result[1], <<"B","u","d","g","e","t"," ","S","t","a","t","u","s",":">>))
       => \A i \in 1..Len(dbBudgets) :
            /\ classOfMark(budgetMarks(qcall'[c].result[1])[i])
                 = classOfThresholds(spentOfBudget(dbBudgets[i], dbTransactions),
                                     dbBudgets[i].amount)
            /\ classOfMark(budgetMarks(qcall'[c].result[1])[i])
                 = classOfInsights(getInsights(dbTransactions, dbBudgets), i)]_vars

\* the catalog categories of the type that have a keyword in the text
keywordHits(lowerText, type) ==
  { i \in 1..Len(DEFAULT_CATEGORIES) :
      /\ DEFAULT_CATEGORIES[i].type = type
      /\ \E j \in 1..Len(DEFAULT_CATEGORIES[i].keywords) :
           includes(lowerText, DEFAULT_CATEGORIES[i].keywords[j]) }

\* C24: the backend's category match looks only at the catalog categories of
\* the classified type, in catalog order, and takes the category of the first
\* keyword found in the lowercased text (first match, not longest or best);
\* when none is found it takes 'Other' / 'Other Income' with confidence 0.5.
C24_FirstKeywordWins ==
  apiCall.status = 200
  => LET hits == keywordHits(trim(toLowerCase(apiCall.text)), apiCall.body.type)
     IN IF hits # {}
        THEN apiCall.body.category = DEFAULT_CATEGORIES[MinOf(hits)].name
        ELSE /\ apiCall.body.category
                  = (IF apiCall.body.type = "income" THEN <<"O","t","h","e","r"," ","I","n","c","o","m","e">> ELSE <<"O","t","h","e","r">>)
             /\ apiCall.body.confidence = 50

\* 'billa' holds the keyword 'bill' of Utilities, which stands before
\* Groceries and its keyword 'billa' in the catalog
C24_Witness ==
  /\ apiCall.status = 200
  /\ apiCall.text = <<"-","2","5"," ","b","i","l","l","a">>
  /\ apiCall.body.type = "expense"
  /\ apiCall.body.category = <<"U","t","i","l","i","t","i","e","s">>
  /\ keywordHits(<<"-","2","5"," ","b","i","l","l","a">>, "expense") = {7, 8}

\* the extraction by the four forms in their order: (a) a sign, an optional
\* currency symbol, digits; (b) a currency symbol before digits; (c) digits
\* followed by a currency symbol; (d) bare digits. Each form is looked for
\* anywhere in the text, and the first form that occurs decides
amountByForms(text) ==
  LET signed == { i \in 1..Len(text) :
                    text[i] \in {"+", "-"} /\ DigitAfterCurrency(text, i + 1) # 0 }
      prefixed == { i \in 1..Len(text) :
                      /\ text[i] \in CurrencySymbols
                      /\ SkipSpaces(text, i + 1) <= Len(text)
                      /\ IsDigit(text[SkipSpaces(text, i + 1)]) }
      suffixed == { i \in 1..Len(text) :
                      /\ IsDigit(text[i])
                      /\ SkipSpaces(text, i + Len(NumberAt(text, i))) <= Len(text)
                      /\ text[SkipSpaces(text, i + Len(NumberAt(text, i)))] \in CurrencySymbols }
      bare == { i \in 1..Len(text) : IsDigit(text[i]) }
      valueAt(i) == parseFloat(replaceComma(NumberAt(text, i)))
  IN IF signed # {}
     THEN [amount |-> valueAt(DigitAfterCurrency(text, MinOf(signed) + 1)),
           explicitSign |-> Some(text[MinOf(signed)])]
     ELSE IF prefixed # {}
     THEN [amount |-> valueAt(SkipSpaces(text, MinOf(prefixed) + 1)), explicitSign |-> None]
     ELSE IF suffixed # {}
     THEN [amount |-> valueAt(MinOf(suffixed)), explicitSign |-> None]
     ELSE IF bare # {}
     THEN [amount |-> valueAt(MinOf(bare)), explicitSign |-> None]
     ELSE [amount |-> 0, explicitSign |-> None]

\* C25: the amount is taken from the first of the forms (a) signed, (b)
\* currency symbol before digits, (c) digits followed by a currency symbol,
\* (d) bare digits, that occurs anywhere in the text; when none occurs the
\* amount is 0 and the explicit sign is null.
C25_FirstFormDecides ==
  apiCall.status = 200
  => /\ parserAmount(apiCall.text) = amountByForms(apiCall.text)
     /\ apiCall.body.amount = Abs(amountByForms(apiCall.text).amount)

\* C26: in the Telegram bot each parsed transaction is persisted at most
\* once: whatever the sequence of Confirm presses, repeated ones and a retry
\* after a reported error included, addTransaction is executed at most once
\* for one pending transaction.
C26_PersistedAtMostOnce ==
  \A i, j \in 1..Len(botSaves) :
    botSaves[i].pending = botSaves[j].pending => i = j

\* C27: a Confirm press persists the transaction shown in the message whose
\* button was pressed, also when the user has sent further transaction
\* messages before pressing Confirm on an earlier one.
C27_PersistsWhatTheMessageShows ==
  [][\A u \in BotUsers, m \in 1..MaxMessages :
       (/\ m <= Len(botMessages)
        /\ botMessages[m].user = u
        /\ botMessages[m].buttons
        /\ Len(botSaves') = Len(botSaves) + 1
        /\ botSaves'[Len(botSaves')].pressed = m)
       => /\ botSaves'[Len(botSaves')].parsed = botMessages[m].shows
          /\ serverTransactions'[Len(serverTransactions')].amount = botMessages[m].shows.amount
          /\ serverTransactions'[Len(serverTransactions')].category
               = botMessages[m].shows.category]_vars

\* C28: every answer processQuery returns for a locally recognized intent is
\* the answer handleLocalQuery computes from the transactions, accounts and
\* budgets as they are at the call, also when the ledger has changed between
\* two identical questions.
C28_AnswerFromCurrentLedger ==
  [][\A c \in IntentCalls :
       (/\ qcall[c].pc = "idle"
        /\ qcall'[c].pc = "done"
        /\ handleLocalQuery(toLowerCase(qcall'[c].query), dbTransactions,
                            dbAccounts, dbBudgets) # None)
       => qcall'[c].result
            = handleLocalQuery(toLowerCase(qcall'[c].query), dbTransactions,
                               dbAccounts, dbBudgets)]_vars

\* the model the settings table selects, computed by a service that has
\* read nothing yet
modelOfStoredSettings == getModel(dbSettings, None).model

\* a step in which parseTransaction escalates or processQuery asks for a narrative
modelCallStarts ==
  \/ pcall.pc = "idle" /\ pcall'.pc = "awaiting"
  \/ \E c \in IntentCalls : qcall[c].pc = "idle" /\ qcall'[c].pc = "awaiting"

\* C29: the model of an AIService call is the one the settings stored at the
\* time of the call select: after 'settings:set' the next escalation or
\* narrative call uses the new configuration.
C29_ModelOfStoredSettings ==
  [][modelCallStarts => modelRequested' = Some(modelOfStoredSettings)]_vars

\* C29 holds for the first call of the service, before anything is kept
C29_FirstCallUsesStoredSettings ==
  [][modelCallStarts /\ aiSettings = None
       => modelRequested' = Some(modelOfStoredSettings)]_vars

\* how often sync has imported the server row at position k
timesImported(k) == Cardinality({ i \in 1..Len(imported) : imported[i] = k })

\* C30: sync imports each server transaction of an external source into the
\* local database at most once, for any sequence and interleaving of runs:
\* repeated runs, overlapping runs of the timer and of 'sync:now', and a run
\* after one that failed part-way through its import.
C30_ImportedAtMostOnce ==
  \A k \in 1..Len(serverTransactions) : timesImported(k) <= 1

====
